---- MODULE Spec2Model ----
(***************************************************************************)
(* DGEWS: the input state machine and event translation of Manager::run.   *)
(* Window message-pump threads (wndproc) turn OS messages into MainEvents  *)
(* and send them through the Messenger; Manager::run, on the main thread,  *)
(* receives them without blocking, clears the per-interval flags,          *)
(* translates each MainEvents into an Events value while updating the      *)
(* Keyboard and Mouse tables, calls the user callback and interprets the   *)
(* ControlFlow the callback leaves behind.                                 *)
(***************************************************************************)
EXTENDS Integers, Sequences, FiniteSets, TLC

(***************************************************************************)
(* Bounds of the model.                                                    *)
(***************************************************************************)
\* OS messages handled by wndproc in one behaviour.
MaxMsgs == 3
\* Ordinary (non-ALT) virtual keys modelled: Key_A .. Key_A + NumOrdKeys - 1.
NumOrdKeys == 1
\* Exit codes a callback may put into ExitWithCode: 0 .. MaxExitCode.
MaxExitCode == 0

(***************************************************************************)
(* Program constants.                                                      *)
(***************************************************************************)
Key_ALT == 18
Button_LBUTTON == 1
Button_RBUTTON == 2
Button_MBUTTON == 4
Button_XBUTTON1 == 5
Button_XBUTTON2 == 6
\* Keyboard::new: the table holds the codes 0 .. N_KEYS - 1.
N_KEYS == 256
Key_A == 65

\* Manager::new registers one window (class DGEWindowClassExWName); 1 stands for its handle.
Windows == {1}
OrdKeys == Key_A..(Key_A + NumOrdKeys - 1)
\* The virtual-key codes whose table entries the model tracks.
KeyCodes == {Key_ALT} \cup OrdKeys
\* WM_CHAR carries a UTF-16 code unit: WideChar is the first one above the table.
WideChar == N_KEYS
\* The character codes WM_CHAR carries in the model.
CharCodes == OrdKeys \cup {WideChar}
Buttons == {Button_LBUTTON, Button_RBUTTON, Button_MBUTTON, Button_XBUTTON1, Button_XBUTTON2}
ExitCodes == 0..MaxExitCode

VARIABLES
    keyboard,      \* Manager.keyboard: [keys, chars, autorepeat, n_keys]
    mouse,         \* Manager.mouse
    close,         \* Manager.close
    msger,         \* Manager.msger: the notifications sent and not yet received
    control_flow,  \* run's local control_flow
    pc,            \* where run is: "new", "recv", "func", "returned", "panicked"
    phase,         \* which callback invocation run is in: "drain" or "idle"
    events,        \* the Events value handed to the callback
    nmsgs,         \* number of OS messages wndproc has handled
    sentlog,       \* history: the MainEvents sent into the Messenger, in send order
    delivered,     \* history: the notifications run has handed to the callback
    batch,         \* notifications received in the current pass of the outer loop
    calls,         \* callback invocations in the current pass of the outer loop
    query,         \* the last query made through the public accessors
    pump           \* the message-pump thread of each window: [state, quit, destroyed]

vars == <<keyboard, mouse, close, msger, control_flow, pc, phase, events,
          nmsgs, sentlog, delivered, batch, calls, query, pump>>

(***************************************************************************)
(* KeyState (keystates.rs).                                                *)
(***************************************************************************)
KeyState_new(is_down, is_released, is_changed) ==
    [is_down |-> is_down, is_released |-> is_released, is_changed |-> is_changed]

KeyStates == {KeyState_new(d, r, c) : d \in BOOLEAN, r \in BOOLEAN, c \in BOOLEAN}

(***************************************************************************)
(* Action and ControlFlow (events.rs, controlflow.rs).                     *)
(***************************************************************************)
Actions == {"Press", "Release", "Down", "None"}

Continue == [kind |-> "Continue", code |-> 0]
Exit == [kind |-> "Exit", code |-> 0]
ExitWithCode(c) == [kind |-> "ExitWithCode", code |-> c]
ControlFlows == {Continue, Exit} \cup {ExitWithCode(c) : c \in ExitCodes}

ControlFlow_default == Continue

(***************************************************************************)
(* Events (events.rs).                                                     *)
(***************************************************************************)
Events_None == [kind |-> "None"]
Events_default == Events_None
KeyboardEvents_Key(id, keycode, action) ==
    [kind |-> "Key", id |-> id, keycode |-> keycode, action |-> action]
KeyboardEvents_Char(id, keycode) ==
    [kind |-> "Char", id |-> id, keycode |-> keycode]

MainKeyboardEvents_Key(id, up, is_changed, keycode) ==
    [kind |-> "Key", id |-> id, up |-> up, is_changed |-> is_changed, keycode |-> keycode]
MainKeyboardEvents_Char(id, keycode) ==
    [kind |-> "Char", id |-> id, keycode |-> keycode]

\* Point (common.rs)
Point_new(x, y) == [x |-> x, y |-> y]

WindowEvents_Close(id) == [kind |-> "Close", id |-> id]
WindowEvents_Maximized(id, width, height) ==
    [kind |-> "Maximized", id |-> id, width |-> width, height |-> height]
WindowEvents_Minimized(id, width, height) ==
    [kind |-> "Minimized", id |-> id, width |-> width, height |-> height]
WindowEvents_FramebufferChanged(id, width, height) ==
    [kind |-> "FramebufferChanged", id |-> id, width |-> width, height |-> height]

MouseEvents_LButton(id, action, pos) ==
    [kind |-> "LButton", id |-> id, action |-> action, pos |-> pos]
MouseEvents_RButton(id, action, pos) ==
    [kind |-> "RButton", id |-> id, action |-> action, pos |-> pos]
MouseEvents_MButton(id, action, pos) ==
    [kind |-> "MButton", id |-> id, action |-> action, pos |-> pos]
MouseEvents_X1Button(id, action, pos) ==
    [kind |-> "X1Button", id |-> id, action |-> action, pos |-> pos]
MouseEvents_X2Button(id, action, pos) ==
    [kind |-> "X2Button", id |-> id, action |-> action, pos |-> pos]
MouseEvents_MouseMove(id, x, y, last_x, last_y, dx, dy) ==
    [kind |-> "MouseMove", id |-> id, x |-> x, y |-> y,
     last_x |-> last_x, last_y |-> last_y, dx |-> dx, dy |-> dy]

MainWindowEvents_Close(id) == [kind |-> "Close", id |-> id]
MainWindowEvents_Maximized(id, width, height) ==
    [kind |-> "Maximized", id |-> id, width |-> width, height |-> height]
MainWindowEvents_Minimized(id, width, height) ==
    [kind |-> "Minimized", id |-> id, width |-> width, height |-> height]
MainWindowEvents_FramebufferChanged(id, width, height) ==
    [kind |-> "FramebufferChanged", id |-> id, width |-> width, height |-> height]

MainMouseEvents_LButton(id, up, pos) == [kind |-> "LButton", id |-> id, up |-> up, pos |-> pos]
MainMouseEvents_RButton(id, up, pos) == [kind |-> "RButton", id |-> id, up |-> up, pos |-> pos]
MainMouseEvents_MButton(id, up, pos) == [kind |-> "MButton", id |-> id, up |-> up, pos |-> pos]
MainMouseEvents_XButton(id, up, wparam, pos) ==
    [kind |-> "XButton", id |-> id, up |-> up, wparam |-> wparam, pos |-> pos]
MainMouseEvents_MouseMove(id, x, y) == [kind |-> "MouseMove", id |-> id, x |-> x, y |-> y]

(***************************************************************************)
(* Keyboard (keyboard.rs).  The tables are HashMaps keyed 0 .. n_keys - 1; *)
(* the model tracks the entries of the codes it uses.  A lookup of a code  *)
(* outside the table is get(..).unwrap() on a missing key: a panic.        *)
(***************************************************************************)
TableCodes(n_keys) == {k \in KeyCodes \cup CharCodes : k < n_keys}

\* Faulty variant: every key starts with its changed flag set.
Keyboard_from_nkeys_Changed(autorepeat, n_keys) ==
    [keys |-> [i \in TableCodes(n_keys) |-> KeyState_new(FALSE, FALSE, TRUE)],
     chars |-> [i \in TableCodes(n_keys) |-> FALSE],
     autorepeat |-> autorepeat,
     n_keys |-> n_keys]

Keyboard_from_nkeys(autorepeat, n_keys) ==
    [keys |-> [i \in TableCodes(n_keys) |-> KeyState_new(FALSE, FALSE, FALSE)],
     chars |-> [i \in TableCodes(n_keys) |-> FALSE],
     autorepeat |-> autorepeat,
     n_keys |-> n_keys]

Keyboard_new(autorepeat) == Keyboard_from_nkeys(autorepeat, N_KEYS)

\* keys.get(&keycode) / chars.get(&char) is Some
InTable(kb, code) == code \in DOMAIN kb.keys

Keyboard_is_down(kb, keycode) == kb.keys[keycode].is_down
Keyboard_is_released(kb, keycode) == kb.keys[keycode].is_released
Keyboard_is_changed(kb, keycode) == kb.keys[keycode].is_changed
Keyboard_is_char(kb, char) == kb.chars[char]

Keyboard_set_is_down(kb, keycode, value) ==
    [kb EXCEPT !.keys[keycode].is_down = value]
Keyboard_set_is_released(kb, keycode, value) ==
    [kb EXCEPT !.keys[keycode].is_released = value]
Keyboard_set_is_changed(kb, keycode, value) ==
    [kb EXCEPT !.keys[keycode].is_changed = value]
Keyboard_set_is_char(kb, char, pressed) ==
    [kb EXCEPT !.chars[char] = pressed]

\* Faulty variant: clear also resets the released flags.
Keyboard_clear_Released(kb) ==
    [kb EXCEPT !.keys = [i \in DOMAIN kb.keys |->
                            [kb.keys[i] EXCEPT !.is_changed = FALSE, !.is_released = FALSE]],
               !.chars = [i \in DOMAIN kb.chars |-> FALSE]]

Keyboard_clear(kb) ==
    [kb EXCEPT !.keys = [i \in DOMAIN kb.keys |-> [kb.keys[i] EXCEPT !.is_changed = FALSE]],
               !.chars = [i \in DOMAIN kb.chars |-> FALSE]]

(***************************************************************************)
(* Mouse (mouse.rs).                                                       *)
(***************************************************************************)
Mouse_new ==
    [x |-> 0, y |-> 0, last_x |-> 0, last_y |-> 0,
     l_button |-> KeyState_new(FALSE, FALSE, FALSE),
     r_button |-> KeyState_new(FALSE, FALSE, FALSE),
     m_button |-> KeyState_new(FALSE, FALSE, FALSE),
     x1_button |-> KeyState_new(FALSE, FALSE, FALSE),
     x2_button |-> KeyState_new(FALSE, FALSE, FALSE)]

\* Faulty variant: clear_keystates also forgets the previous position.
Mouse_clear_keystates_Position(ms) ==
    [ms EXCEPT !.l_button.is_changed = FALSE,
               !.r_button.is_changed = FALSE,
               !.m_button.is_changed = FALSE,
               !.x1_button.is_changed = FALSE,
               !.x2_button.is_changed = FALSE,
               !.last_x = ms.x,
               !.last_y = ms.y]

Mouse_clear_keystates(ms) ==
    [ms EXCEPT !.l_button.is_changed = FALSE,
               !.r_button.is_changed = FALSE,
               !.m_button.is_changed = FALSE,
               !.x1_button.is_changed = FALSE,
               !.x2_button.is_changed = FALSE]

\* The range of i16, the type of the four position fields.
I16_MIN == -(2^15)
I16_MAX == 2^15 - 1

\* a - b on i16: the difference when it fits; otherwise a panic in a build with
\* overflow checks and the difference wrapped into the range in a build without.
I16_sub(a, b, overflow_checks) ==
    IF a - b \in I16_MIN..I16_MAX THEN [ok |-> TRUE, value |-> a - b]
    ELSE IF overflow_checks THEN [ok |-> FALSE, value |-> 0]
    ELSE [ok |-> TRUE, value |-> ((a - b - I16_MIN) % 2^16) + I16_MIN]

Mouse_update_pos(ms, x, y) ==
    [ms EXCEPT !.last_x = ms.x, !.last_y = ms.y, !.x = x, !.y = y]

Mouse_set_l_button_changed(ms, value) == [ms EXCEPT !.l_button.is_changed = value]
Mouse_set_r_button_changed(ms, value) == [ms EXCEPT !.r_button.is_changed = value]
Mouse_set_m_button_changed(ms, value) == [ms EXCEPT !.m_button.is_changed = value]
Mouse_set_x1_button_changed(ms, value) == [ms EXCEPT !.x1_button.is_changed = value]
Mouse_set_x2_button_changed(ms, value) == [ms EXCEPT !.x2_button.is_changed = value]
Mouse_set_l_button_released(ms, value) == [ms EXCEPT !.l_button.is_released = value]
Mouse_set_r_button_released(ms, value) == [ms EXCEPT !.r_button.is_released = value]
Mouse_set_m_button_released(ms, value) == [ms EXCEPT !.m_button.is_released = value]
Mouse_set_x1_button_released(ms, value) == [ms EXCEPT !.x1_button.is_released = value]
Mouse_set_x2_button_released(ms, value) == [ms EXCEPT !.x2_button.is_released = value]
Mouse_set_l_button_down(ms, value) == [ms EXCEPT !.l_button.is_down = value]
Mouse_set_r_button_down(ms, value) == [ms EXCEPT !.r_button.is_down = value]
Mouse_set_m_button_down(ms, value) == [ms EXCEPT !.m_button.is_down = value]
Mouse_set_x1_button_down(ms, value) == [ms EXCEPT !.x1_button.is_down = value]
Mouse_set_x2_button_down(ms, value) == [ms EXCEPT !.x2_button.is_down = value]

Mouse_x_offset(ms, overflow_checks) == I16_sub(ms.x, ms.last_x, overflow_checks)
Mouse_y_offset(ms, overflow_checks) == I16_sub(ms.y, ms.last_y, overflow_checks)
Mouse_x(ms) == ms.x
Mouse_y(ms) == ms.y
Mouse_last_x(ms) == ms.last_x
Mouse_last_y(ms) == ms.last_y

(***************************************************************************)
(* The public accessors of Manager (manager.rs).                           *)
(***************************************************************************)
\* Result of a query that panicked.
Panicked == "panic"

\* Faulty variant: a key that is held counts as a character of the interval.
get_char_OrDown(kb, char) ==
    IF InTable(kb, char)
    THEN Keyboard_is_char(kb, char) \/ Keyboard_is_down(kb, char)
    ELSE Panicked

get_char(kb, char) ==
    IF InTable(kb, char) THEN Keyboard_is_char(kb, char) ELSE Panicked

\* Faulty variant: Down and Press exchanged.
get_key_Swapped(kb, keycode) ==
    IF ~InTable(kb, keycode) THEN Panicked
    ELSE IF Keyboard_is_down(kb, keycode) /\ ~Keyboard_is_changed(kb, keycode) THEN "Press"
    ELSE IF Keyboard_is_down(kb, keycode) /\ Keyboard_is_changed(kb, keycode) THEN "Down"
    ELSE IF ~Keyboard_is_down(kb, keycode) /\ Keyboard_is_changed(kb, keycode) THEN "Release"
    ELSE "None"

get_key(kb, keycode) ==
    IF ~InTable(kb, keycode) THEN Panicked
    ELSE IF Keyboard_is_down(kb, keycode) /\ ~Keyboard_is_changed(kb, keycode) THEN "Down"
    ELSE IF Keyboard_is_down(kb, keycode) /\ Keyboard_is_changed(kb, keycode) THEN "Press"
    ELSE IF ~Keyboard_is_down(kb, keycode) /\ Keyboard_is_changed(kb, keycode) THEN "Release"
    ELSE "None"

\* The four-way test get_mouse_button repeats for each button slot.
ButtonAction(ks) ==
    IF ks.is_changed /\ ks.is_down THEN "Press"
    ELSE IF ~ks.is_changed /\ ks.is_down THEN "Down"
    ELSE IF ~ks.is_down /\ ks.is_changed THEN "Release"
    ELSE "None"

\* Faulty variant: an unknown button id is answered None.
get_mouse_button_Default(ms, button) ==
    CASE button = Button_LBUTTON -> ButtonAction(ms.l_button)
      [] button = Button_RBUTTON -> ButtonAction(ms.r_button)
      [] button = Button_MBUTTON -> ButtonAction(ms.m_button)
      [] button = Button_XBUTTON1 -> ButtonAction(ms.x1_button)
      [] button = Button_XBUTTON2 -> ButtonAction(ms.x2_button)
      [] OTHER -> "None"

get_mouse_button(ms, button) ==
    CASE button = Button_LBUTTON -> ButtonAction(ms.l_button)
      [] button = Button_RBUTTON -> ButtonAction(ms.r_button)
      [] button = Button_MBUTTON -> ButtonAction(ms.m_button)
      [] button = Button_XBUTTON1 -> ButtonAction(ms.x1_button)
      [] button = Button_XBUTTON2 -> ButtonAction(ms.x2_button)
      [] OTHER -> Panicked

(***************************************************************************)
(* Messenger: the channel between the window threads and run.  Its source  *)
(* is not part of the tree; it is modelled as the unbounded FIFO           *)
(* multi-producer/single-consumer queue the design describes.              *)
(***************************************************************************)
Messenger_new == <<>>
Messenger_send(q, e) == Append(q, e)
\* When the last sender is dropped the queue is closed: the messages already
\* sent can still be received, after them try_recv fails with Disconnected.
\* The closing is the mark Disconnected (seq 0) at the end of the queue.
Disconnected == [seq |-> 0]
Messenger_disconnect(q) == Append(q, Disconnected)
Messenger_is_disconnected(q) == q # <<>> /\ q[Len(q)].seq = 0
\* try_recv is Ok(Head(q)), leaving Tail(q), iff a message is queued; it is
\* an Err both when the queue is empty and when it is disconnected.
Messenger_try_recv_ok(q) == q # <<>> /\ Head(q).seq # 0
Messenger_try_recv_value(q) == Head(q)
Messenger_try_recv_rest(q) == Tail(q)

(***************************************************************************)
(* OS messages and Manager::wndproc (manager.rs).  bit30 is bit 30 of      *)
(* lparam, the previous key state: 1 on an auto-repeat key-down and on     *)
(* every key-up.                                                           *)
(***************************************************************************)
OsMsg(msg, wparam, bit30) == [msg |-> msg, wparam |-> wparam, bit30 |-> bit30]

KeyMessages ==
    {OsMsg("WM_KEYDOWN", k, b) : k \in KeyCodes, b \in 0..1}
    \cup {OsMsg("WM_KEYUP", k, 1) : k \in KeyCodes}
    \cup {OsMsg("WM_CHAR", c, 0) : c \in CharCodes}

\* The words of a 32-bit message parameter, and the signed 16-bit coordinates
\* MAKEPOINTS reads from them.
LOWORD(l) == l % 2^16
HIWORD(l) == (l \div 2^16) % 2^16
\* wparam as u32: the two low words are kept.
AsU32(w) == HIWORD(w) * 2^16 + LOWORD(w)
ToI16(w) == IF w >= 2^15 THEN w - 2^16 ELSE w
MAKEPOINTS_x(l) == ToI16(LOWORD(l))
MAKEPOINTS_y(l) == ToI16(HIWORD(l))
\* value & mask > 0, for a mask of one bit
TestBit(value, mask) == (value \div mask) % 2 = 1

\* The winapi constants wndproc and run compare against.
SIZE_MINIMIZED == 1
SIZE_MAXIMIZED == 2
XBUTTON1 == 1
XBUTTON2 == 2
MK_XBUTTON1 == 32
MK_XBUTTON2 == 64

\* A message whose lparam carries two 16-bit words (a position or a size).
OsMsgL(msg, wparam, lparam_lo, lparam_hi) ==
    [msg |-> msg, wparam |-> wparam, lparam |-> lparam_hi * 2^16 + lparam_lo]

\* Pointer moves: two ordinary positions and one at the low end of the range
\* (the word 2^15 is the coordinate -2^15).
MovePositions == {<<10, 20>>, <<13, 25>>, <<2^15, 20>>}
ButtonPositions == {<<10, 20>>}
MoveMessages == {OsMsgL("WM_MOUSEMOVE", 0, p[1], p[2]) : p \in MovePositions}
LButtonMessages ==
    {OsMsgL(msg, 0, p[1], p[2]) : msg \in {"WM_LBUTTONDOWN", "WM_LBUTTONUP"},
                                  p \in ButtonPositions}
PointerMessages == MoveMessages \cup LButtonMessages

\* wparam of an extended-button message: the high word names the button that
\* fired, the low word is the mask of the buttons held after the change.
XButtonWparam(fired, held) ==
    fired * 2^16 + (IF XBUTTON1 \in held THEN MK_XBUTTON1 ELSE 0)
                 + (IF XBUTTON2 \in held THEN MK_XBUTTON2 ELSE 0)
XButtonMessages ==
    {OsMsgL("WM_XBUTTONDOWN", XButtonWparam(b, {b} \cup other), p[1], p[2]) :
        b \in {XBUTTON1, XBUTTON2}, other \in SUBSET {XBUTTON1, XBUTTON2},
        p \in ButtonPositions}
    \cup {OsMsgL("WM_XBUTTONUP", XButtonWparam(b, {}), p[1], p[2]) :
        b \in {XBUTTON1, XBUTTON2}, p \in ButtonPositions}
ButtonMessages ==
    {OsMsgL(msg, 0, p[1], p[2]) :
            msg \in {"WM_RBUTTONDOWN", "WM_RBUTTONUP", "WM_MBUTTONDOWN", "WM_MBUTTONUP"},
            p \in ButtonPositions}
    \cup XButtonMessages
    \cup {OsMsgL("WM_MOUSEMOVE", 0, p[1], p[2]) : p \in ButtonPositions}

\* Resizes of every kind tag (0 restored, 1 minimized, 2 maximized, 3 another
\* window restored) and a message wndproc has no arm for.
SizeKinds == 0..3
Sizes == {<<800, 600>>, <<640, 480>>}
SizeMessages == {OsMsgL("WM_SIZE", k, sz[1], sz[2]) : k \in SizeKinds, sz \in Sizes}
UnrecognizedMessages == {OsMsgL("WM_TIMER", 0, 0, 0)}
WindowMessages == SizeMessages \cup UnrecognizedMessages

\* Keys and buttons together.
InputMessages ==
    {OsMsg("WM_KEYDOWN", k, b) : k \in OrdKeys, b \in 0..1}
    \cup {OsMsg("WM_KEYUP", k, 1) : k \in OrdKeys}
    \cup {OsMsg("WM_CHAR", c, 0) : c \in OrdKeys}
    \cup LButtonMessages
    \cup {OsMsgL(msg, XButtonWparam(XBUTTON2, held), p[1], p[2]) :
            msg \in {"WM_XBUTTONDOWN"}, held \in {{XBUTTON2}}, p \in ButtonPositions}
    \cup {OsMsgL(msg, XButtonWparam(XBUTTON2, held), p[1], p[2]) :
            msg \in {"WM_XBUTTONUP"}, held \in {{}}, p \in ButtonPositions}

\* The position a button message carries.
wndproc_pos(m) == Point_new(LOWORD(m.lparam), HIWORD(m.lparam))

\* Faulty variant: every kind tag from the maximize tag upwards counts as maximized.
wndproc_WM_SIZE_AtLeast(hwnd, m) ==
    IF m.wparam >= SIZE_MAXIMIZED
    THEN MainWindowEvents_Maximized(hwnd, LOWORD(m.lparam), HIWORD(m.lparam))
    ELSE IF m.wparam = SIZE_MINIMIZED
    THEN MainWindowEvents_Minimized(hwnd, LOWORD(m.lparam), HIWORD(m.lparam))
    ELSE MainWindowEvents_FramebufferChanged(hwnd, LOWORD(m.lparam), HIWORD(m.lparam))

wndproc_WM_SIZE(hwnd, m) ==
    IF m.wparam = SIZE_MAXIMIZED
    THEN MainWindowEvents_Maximized(hwnd, LOWORD(m.lparam), HIWORD(m.lparam))
    ELSE IF m.wparam = SIZE_MINIMIZED
    THEN MainWindowEvents_Minimized(hwnd, LOWORD(m.lparam), HIWORD(m.lparam))
    ELSE MainWindowEvents_FramebufferChanged(hwnd, LOWORD(m.lparam), HIWORD(m.lparam))

\* The MainEvents wndproc sends for an OS message: a sequence of length 0 or 1.
\* Whatever the message, wndproc ends in DefWindowProcW.
wndproc(hwnd, m) ==
    CASE m.msg = "WM_CHAR" ->
            <<MainKeyboardEvents_Char(hwnd, m.wparam)>>
      [] m.msg = "WM_KEYDOWN" ->
            <<MainKeyboardEvents_Key(hwnd, FALSE, m.bit30 = 0, m.wparam)>>
      [] m.msg = "WM_KEYUP" ->
            <<MainKeyboardEvents_Key(hwnd, TRUE, m.bit30 = 0, m.wparam)>>
      [] m.msg = "WM_MOUSEMOVE" ->
            <<MainMouseEvents_MouseMove(hwnd, MAKEPOINTS_x(m.lparam), MAKEPOINTS_y(m.lparam))>>
      [] m.msg = "WM_DESTROY" -> <<MainWindowEvents_Close(hwnd)>>
      [] m.msg = "WM_SIZE" -> <<wndproc_WM_SIZE(hwnd, m)>>
      [] m.msg = "WM_LBUTTONDOWN" -> <<MainMouseEvents_LButton(hwnd, FALSE, wndproc_pos(m))>>
      [] m.msg = "WM_LBUTTONUP" -> <<MainMouseEvents_LButton(hwnd, TRUE, wndproc_pos(m))>>
      [] m.msg = "WM_RBUTTONDOWN" -> <<MainMouseEvents_RButton(hwnd, FALSE, wndproc_pos(m))>>
      [] m.msg = "WM_RBUTTONUP" -> <<MainMouseEvents_RButton(hwnd, TRUE, wndproc_pos(m))>>
      [] m.msg = "WM_MBUTTONDOWN" -> <<MainMouseEvents_MButton(hwnd, FALSE, wndproc_pos(m))>>
      [] m.msg = "WM_MBUTTONUP" -> <<MainMouseEvents_MButton(hwnd, TRUE, wndproc_pos(m))>>
      [] m.msg = "WM_XBUTTONDOWN" ->
            <<MainMouseEvents_XButton(hwnd, FALSE, AsU32(m.wparam), wndproc_pos(m))>>
      [] m.msg = "WM_XBUTTONUP" ->
            <<MainMouseEvents_XButton(hwnd, TRUE, AsU32(m.wparam), wndproc_pos(m))>>
      [] OTHER -> <<>>

(***************************************************************************)
(* The translation run applies to a received MainEvents (manager.rs).      *)
(* The result is [ok, keyboard, mouse, events]; ok = FALSE when a table    *)
(* lookup misses, which panics inside run.                                 *)
(***************************************************************************)
Translated(kb, ms, ev) == [ok |-> TRUE, keyboard |-> kb, mouse |-> ms, events |-> ev]
TranslatePanic(kb, ms) == [ok |-> FALSE, keyboard |-> kb, mouse |-> ms, events |-> Events_None]

TranslateKeyUp(kb, ms, id, keycode) ==
    LET kb1 == Keyboard_set_is_down(kb, keycode, FALSE)
        kb2 == Keyboard_set_is_changed(kb1, keycode, TRUE)
        kb3 == Keyboard_set_is_released(kb2, keycode, TRUE)
    IN  Translated(kb3, ms, KeyboardEvents_Key(id, keycode, "Release"))

\* Faulty variant: every non-repeat key-down produces Press, latched or not.
TranslateKeyDown_AlwaysPress(kb, ms, id, is_changed, keycode) ==
    LET kb1 == Keyboard_set_is_down(kb, keycode, TRUE)
        kb2 == Keyboard_set_is_changed(kb1, keycode, is_changed)
    IN  IF ~Keyboard_is_changed(kb2, keycode)
        THEN Translated(kb2, ms, KeyboardEvents_Key(id, keycode, "Down"))
        ELSE Translated(Keyboard_set_is_released(kb2, keycode, FALSE), ms,
                        KeyboardEvents_Key(id, keycode, "Press"))

TranslateKeyDown(kb, ms, id, is_changed, keycode) ==
    LET kb1 == Keyboard_set_is_down(kb, keycode, TRUE)
        kb2 == Keyboard_set_is_changed(kb1, keycode, is_changed)
    IN  IF ~Keyboard_is_changed(kb2, keycode)
        THEN Translated(kb2, ms, KeyboardEvents_Key(id, keycode, "Down"))
        ELSE IF Keyboard_is_released(kb2, keycode)
        THEN Translated(Keyboard_set_is_released(kb2, keycode, FALSE), ms,
                        KeyboardEvents_Key(id, keycode, "Press"))
        ELSE Translated(kb2, ms, Events_None)

\* Faulty variant: Key::ALT is translated like every other key.
TranslateKey_AltLikeOthers(kb, ms, e) ==
    IF ~InTable(kb, e.keycode) THEN TranslatePanic(kb, ms)
    ELSE IF e.up THEN TranslateKeyUp(kb, ms, e.id, e.keycode)
    ELSE TranslateKeyDown(kb, ms, e.id, e.is_changed, e.keycode)

TranslateKey(kb, ms, e) ==
    IF ~InTable(kb, e.keycode) THEN TranslatePanic(kb, ms)
    ELSE IF e.keycode = Key_ALT
    THEN Translated(kb, ms, KeyboardEvents_Key(e.id, e.keycode, "Release"))
    ELSE IF e.up THEN TranslateKeyUp(kb, ms, e.id, e.keycode)
    ELSE TranslateKeyDown(kb, ms, e.id, e.is_changed, e.keycode)

TranslateChar(kb, ms, e) ==
    IF ~InTable(kb, e.keycode) THEN TranslatePanic(kb, ms)
    ELSE Translated(Keyboard_set_is_char(kb, e.keycode, TRUE), ms,
                    KeyboardEvents_Char(e.id, e.keycode))

TranslateLButton(kb, ms, e) ==
    IF e.up
    THEN LET ms1 == Mouse_set_l_button_down(ms, FALSE)
             ms2 == Mouse_set_l_button_released(ms1, TRUE)
             ms3 == Mouse_set_l_button_changed(ms2, TRUE)
         IN  Translated(kb, ms3, MouseEvents_LButton(e.id, "Release", e.pos))
    ELSE LET ms1 == Mouse_set_l_button_down(ms, TRUE)
             ms2 == Mouse_set_l_button_released(ms1, FALSE)
             ms3 == Mouse_set_l_button_changed(ms2, TRUE)
         IN  Translated(kb, ms3, MouseEvents_LButton(e.id, "Press", e.pos))

\* The right and middle arms update their own slot and build MouseEvents::LButton.
TranslateRButton(kb, ms, e) ==
    IF e.up
    THEN LET ms1 == Mouse_set_r_button_down(ms, FALSE)
             ms2 == Mouse_set_r_button_released(ms1, TRUE)
             ms3 == Mouse_set_r_button_changed(ms2, TRUE)
         IN  Translated(kb, ms3, MouseEvents_LButton(e.id, "Release", e.pos))
    ELSE LET ms1 == Mouse_set_r_button_down(ms, TRUE)
             ms2 == Mouse_set_r_button_released(ms1, FALSE)
             ms3 == Mouse_set_r_button_changed(ms2, TRUE)
         IN  Translated(kb, ms3, MouseEvents_LButton(e.id, "Press", e.pos))

TranslateMButton(kb, ms, e) ==
    IF e.up
    THEN LET ms1 == Mouse_set_m_button_down(ms, FALSE)
             ms2 == Mouse_set_m_button_released(ms1, TRUE)
             ms3 == Mouse_set_m_button_changed(ms2, TRUE)
         IN  Translated(kb, ms3, MouseEvents_LButton(e.id, "Release", e.pos))
    ELSE LET ms1 == Mouse_set_m_button_down(ms, TRUE)
             ms2 == Mouse_set_m_button_released(ms1, FALSE)
             ms3 == Mouse_set_m_button_changed(ms2, TRUE)
         IN  Translated(kb, ms3, MouseEvents_LButton(e.id, "Press", e.pos))

\* Release routes on the high word of wparam, press on the held-buttons mask in
\* its low word, the first extended button tested first.
TranslateXButton(kb, ms, e) ==
    IF e.up
    THEN IF TestBit(HIWORD(e.wparam), XBUTTON1)
         THEN LET ms1 == Mouse_set_x1_button_down(ms, FALSE)
                  ms2 == Mouse_set_x1_button_released(ms1, TRUE)
                  ms3 == Mouse_set_x1_button_changed(ms2, TRUE)
              IN  Translated(kb, ms3, MouseEvents_X1Button(e.id, "Release", e.pos))
         ELSE IF TestBit(HIWORD(e.wparam), XBUTTON2)
         THEN LET ms1 == Mouse_set_x2_button_down(ms, FALSE)
                  ms2 == Mouse_set_x2_button_released(ms1, TRUE)
                  ms3 == Mouse_set_x2_button_changed(ms2, TRUE)
              IN  Translated(kb, ms3, MouseEvents_X2Button(e.id, "Release", e.pos))
         ELSE Translated(kb, ms, Events_None)
    ELSE IF TestBit(LOWORD(e.wparam), MK_XBUTTON1)
         THEN LET ms1 == Mouse_set_x1_button_down(ms, TRUE)
                  ms2 == Mouse_set_x1_button_released(ms1, FALSE)
                  ms3 == Mouse_set_x1_button_changed(ms2, TRUE)
              IN  Translated(kb, ms3, MouseEvents_X1Button(e.id, "Press", e.pos))
         ELSE IF TestBit(LOWORD(e.wparam), MK_XBUTTON2)
         THEN LET ms1 == Mouse_set_x2_button_down(ms, TRUE)
                  ms2 == Mouse_set_x2_button_released(ms1, FALSE)
                  ms3 == Mouse_set_x2_button_changed(ms2, TRUE)
              IN  Translated(kb, ms3, MouseEvents_X2Button(e.id, "Press", e.pos))
         ELSE Translated(kb, ms, Events_None)

\* update_pos, then the event is built from the accessors; an offset that
\* overflows panics in a build with overflow checks.
TranslateMouseMove(kb, ms, e, overflow_checks) ==
    LET ms1 == Mouse_update_pos(ms, e.x, e.y)
        dx == Mouse_x_offset(ms1, overflow_checks)
        dy == Mouse_y_offset(ms1, overflow_checks)
    IN  IF dx.ok /\ dy.ok
        THEN Translated(kb, ms1,
                 MouseEvents_MouseMove(e.id, Mouse_x(ms1), Mouse_y(ms1),
                                       Mouse_last_x(ms1), Mouse_last_y(ms1),
                                       dx.value, dy.value))
        ELSE TranslatePanic(kb, ms1)

TranslateWindow(kb, ms, e) ==
    CASE e.kind = "Close" -> Translated(kb, ms, WindowEvents_Close(e.id))
      [] e.kind = "Maximized" ->
            Translated(kb, ms, WindowEvents_Maximized(e.id, e.width, e.height))
      [] e.kind = "Minimized" ->
            Translated(kb, ms, WindowEvents_Minimized(e.id, e.width, e.height))
      [] e.kind = "FramebufferChanged" ->
            Translated(kb, ms, WindowEvents_FramebufferChanged(e.id, e.width, e.height))

Translate(kb, ms, e, overflow_checks) ==
    CASE e.kind = "Key" -> TranslateKey(kb, ms, e)
      [] e.kind = "Char" -> TranslateChar(kb, ms, e)
      [] e.kind \in {"Close", "Maximized", "Minimized", "FramebufferChanged"} ->
            TranslateWindow(kb, ms, e)
      [] e.kind = "LButton" -> TranslateLButton(kb, ms, e)
      [] e.kind = "RButton" -> TranslateRButton(kb, ms, e)
      [] e.kind = "MButton" -> TranslateMButton(kb, ms, e)
      [] e.kind = "XButton" -> TranslateXButton(kb, ms, e)
      [] e.kind = "MouseMove" -> TranslateMouseMove(kb, ms, e, overflow_checks)

(***************************************************************************)
(* State after Manager::default / Manager::new, before run is called.      *)
(***************************************************************************)
NoQuery == [fn |-> "none", arg |-> 0, result |-> "None"]

\* The thread Manager::insert spawns for a window: pumping its message loop,
\* with no quit message posted and the window not destroyed.
PumpThreads == {1, 2}
Pump_spawned == [state |-> "pumping", quit |-> FALSE, destroyed |-> FALSE]
Pump_new == [hwnd \in PumpThreads |-> Pump_spawned]

Manager_default ==
    /\ keyboard = Keyboard_new(FALSE)
    /\ mouse = Mouse_new
    /\ close = FALSE
    /\ msger = Messenger_new

Init ==
    /\ Manager_default
    /\ control_flow = ControlFlow_default
    /\ pc = "new"
    /\ phase = "drain"
    /\ events = Events_default
    /\ nmsgs = 0
    /\ sentlog = <<>>
    /\ delivered = <<>>
    /\ batch = <<>>
    /\ calls = 0
    /\ query = NoQuery
    /\ pump = Pump_new

(***************************************************************************)
(* A window thread dispatches one OS message to wndproc, which sends the   *)
(* corresponding MainEvents.  The threads are spawned by Manager::insert   *)
(* and run until the process ends.                                         *)
(***************************************************************************)
\* Faulty variant: a notification is put at the front of the queue.
SendAll_Front(q, log, sent, os) ==
    IF sent = <<>> THEN q
    ELSE <<[seq |-> Len(log) + 1, event |-> sent[1], os |-> os]>> \o q

\* Each sent MainEvents carries seq, its position in the send order, and os, the
\* OS message wndproc made it from.
SendAll(q, log, sent, os) ==
    IF sent = <<>> THEN q
    ELSE Messenger_send(q, [seq |-> Len(log) + 1, event |-> sent[1], os |-> os])

\* Faulty variant: the window thread itself clears and translates into the
\* shared tables before it sends.
Dispatch_Translating(hwnd, m) ==
    /\ pc # "panicked"
    /\ ~Messenger_is_disconnected(msger)
    /\ nmsgs < MaxMsgs
    /\ nmsgs' = nmsgs + 1
    /\ msger' = SendAll(msger, sentlog, wndproc(hwnd, m), m)
    /\ sentlog' = sentlog \o wndproc(hwnd, m)
    /\ IF wndproc(hwnd, m) = <<>>
       THEN UNCHANGED <<keyboard, mouse>>
       ELSE LET t == Translate(Keyboard_clear(keyboard), Mouse_clear_keystates(mouse),
                               wndproc(hwnd, m)[1], FALSE)
            IN  keyboard' = t.keyboard /\ mouse' = t.mouse
    /\ UNCHANGED <<close, control_flow, pc, phase, events, delivered, batch, calls, query, pump>>

Dispatch(hwnd, m) ==
    /\ pc # "panicked"
    /\ ~Messenger_is_disconnected(msger)
    /\ nmsgs < MaxMsgs
    /\ nmsgs' = nmsgs + 1
    /\ msger' = SendAll(msger, sentlog, wndproc(hwnd, m), m)
    /\ sentlog' = sentlog \o wndproc(hwnd, m)
    /\ UNCHANGED <<keyboard, mouse, close, control_flow, pc, phase, events,
                   delivered, batch, calls, query, pump>>

\* Every sender is dropped (the sending threads are gone): the channel is
\* disconnected.
Disconnect ==
    /\ pc # "panicked"
    /\ ~Messenger_is_disconnected(msger)
    /\ msger' = Messenger_disconnect(msger)
    /\ UNCHANGED <<keyboard, mouse, close, control_flow, pc, phase, events, nmsgs,
                   sentlog, delivered, batch, calls, query, pump>>

DispatchKey == \E hwnd \in Windows, m \in KeyMessages : Dispatch(hwnd, m)
DispatchPointer == \E hwnd \in Windows, m \in PointerMessages : Dispatch(hwnd, m)
DispatchButton == \E hwnd \in Windows, m \in ButtonMessages : Dispatch(hwnd, m)
DispatchWindow == \E hwnd \in Windows, m \in WindowMessages : Dispatch(hwnd, m)
DispatchInput == \E hwnd \in Windows, m \in InputMessages : Dispatch(hwnd, m)

(***************************************************************************)
(* Manager::run.                                                           *)
(***************************************************************************)
\* let mut control_flow = ControlFlow::default();
RunStart ==
    /\ pc = "new"
    /\ control_flow' = ControlFlow_default
    /\ pc' = "recv"
    /\ UNCHANGED <<keyboard, mouse, close, msger, phase, events, nmsgs, sentlog,
                   delivered, batch, calls, query, pump>>

\* Faulty variant: a notification that translates to Events::None is not handed to func.
RecvOk_SkipNone ==
    /\ pc = "recv"
    /\ Messenger_try_recv_ok(msger)
    /\ \E overflow_checks \in BOOLEAN :
       LET m == Messenger_try_recv_value(msger)
           t == Translate(Keyboard_clear(keyboard), Mouse_clear_keystates(mouse), m.event,
                          overflow_checks)
       IN  /\ msger' = Messenger_try_recv_rest(msger)
           /\ keyboard' = t.keyboard
           /\ mouse' = t.mouse
           /\ batch' = Append(batch, m.seq)
           /\ IF t.ok /\ t.events # Events_None
              THEN /\ events' = t.events
                   /\ phase' = "drain"
                   /\ pc' = "func"
                   /\ calls' = calls + 1
                   /\ delivered' = Append(delivered,
                         [seq |-> m.seq, main_events |-> m.event, events |-> t.events,
                          os |-> m.os])
              ELSE /\ pc' = (IF t.ok THEN "recv" ELSE "panicked")
                   /\ UNCHANGED <<events, phase, calls, delivered>>
    /\ UNCHANGED <<close, control_flow, nmsgs, sentlog, query, pump>>

\* Faulty variant: the drain loop translates without clearing first.
RecvOk_NoClear ==
    /\ pc = "recv"
    /\ Messenger_try_recv_ok(msger)
    /\ \E overflow_checks \in BOOLEAN :
       LET m == Messenger_try_recv_value(msger)
           t == Translate(keyboard, mouse, m.event,
                          overflow_checks)
       IN  /\ msger' = Messenger_try_recv_rest(msger)
           /\ keyboard' = t.keyboard
           /\ mouse' = t.mouse
           /\ batch' = Append(batch, m.seq)
           /\ IF t.ok
              THEN /\ events' = t.events
                   /\ phase' = "drain"
                   /\ pc' = "func"
                   /\ calls' = calls + 1
                   /\ delivered' = Append(delivered,
                         [seq |-> m.seq, main_events |-> m.event, events |-> t.events,
                          os |-> m.os])
              ELSE /\ pc' = "panicked"
                   /\ UNCHANGED <<events, phase, calls, delivered>>
    /\ UNCHANGED <<close, control_flow, nmsgs, sentlog, query, pump>>

\* while let Ok(main_events) = try_recv(): clear, translate, call func.
RecvOk ==
    /\ pc = "recv"
    /\ Messenger_try_recv_ok(msger)
    /\ \E overflow_checks \in BOOLEAN :
       LET m == Messenger_try_recv_value(msger)
           t == Translate(Keyboard_clear(keyboard), Mouse_clear_keystates(mouse), m.event,
                          overflow_checks)
       IN  /\ msger' = Messenger_try_recv_rest(msger)
           /\ keyboard' = t.keyboard
           /\ mouse' = t.mouse
           /\ batch' = Append(batch, m.seq)
           /\ IF t.ok
              THEN /\ events' = t.events
                   /\ phase' = "drain"
                   /\ pc' = "func"
                   /\ calls' = calls + 1
                   /\ delivered' = Append(delivered,
                         [seq |-> m.seq, main_events |-> m.event, events |-> t.events,
                          os |-> m.os])
              ELSE /\ pc' = "panicked"
                   /\ UNCHANGED <<events, phase, calls, delivered>>
    /\ UNCHANGED <<close, control_flow, nmsgs, sentlog, query, pump>>

\* Faulty variant: the idle tick is made without clearing the flags first.
RecvEmpty_NoClear ==
    /\ pc = "recv"
    /\ ~Messenger_try_recv_ok(msger)
    /\ events' = Events_default
    /\ phase' = "idle"
    /\ pc' = "func"
    /\ calls' = calls + 1
    /\ UNCHANGED <<keyboard, mouse, close, msger, control_flow, nmsgs, sentlog, delivered,
                   batch, query, pump>>

\* Faulty variant: an empty channel only clears the flags and polls again, without an idle tick.
RecvEmpty_NoTick ==
    /\ pc = "recv"
    /\ ~Messenger_try_recv_ok(msger)
    /\ keyboard' = Keyboard_clear(keyboard)
    /\ mouse' = Mouse_clear_keystates(mouse)
    /\ UNCHANGED <<close, msger, control_flow, pc, phase, events, nmsgs, sentlog,
                   delivered, batch, calls, query, pump>>

\* try_recv failed: clear, then call func with Events::default().
RecvEmpty ==
    /\ pc = "recv"
    /\ ~Messenger_try_recv_ok(msger)
    /\ keyboard' = Keyboard_clear(keyboard)
    /\ mouse' = Mouse_clear_keystates(mouse)
    /\ events' = Events_default
    /\ phase' = "idle"
    /\ pc' = "func"
    /\ calls' = calls + 1
    /\ UNCHANGED <<close, msger, control_flow, nmsgs, sentlog, delivered, batch, query, pump>>

\* Faulty variant: Exit in the drain loop is looked at only once the batch is drained.
FuncReturnDrain_ExitAfterBatch ==
    /\ pc = "func"
    /\ phase = "drain"
    /\ \E cf \in ControlFlows :
          /\ control_flow' = cf
          /\ CASE cf.kind = "Continue" -> pc' = "recv" /\ close' = close
               [] cf.kind = "Exit" ->
                     IF msger = <<>> THEN pc' = "returned" /\ close' = TRUE
                     ELSE pc' = "recv" /\ close' = close
               [] cf.kind = "ExitWithCode" -> pc' = "panicked" /\ close' = close
    /\ UNCHANGED <<keyboard, mouse, msger, phase, events, nmsgs, sentlog, delivered,
                   batch, calls, query, pump>>

\* Faulty variant: Exit in the drain loop breaks out of the inner loop only, so the idle
\* tick still runs.
FuncReturnDrain_BreakInner ==
    /\ pc = "func"
    /\ phase = "drain"
    /\ \E cf \in ControlFlows :
          /\ control_flow' = cf
          /\ CASE cf.kind = "Continue" ->
                     /\ pc' = "recv"
                     /\ UNCHANGED <<close, keyboard, mouse, phase, events, calls>>
               [] cf.kind = "Exit" ->
                     /\ close' = TRUE
                     /\ keyboard' = Keyboard_clear(keyboard)
                     /\ mouse' = Mouse_clear_keystates(mouse)
                     /\ events' = Events_default
                     /\ phase' = "idle"
                     /\ pc' = "func"
                     /\ calls' = calls + 1
               [] cf.kind = "ExitWithCode" ->
                     /\ pc' = "panicked"
                     /\ UNCHANGED <<close, keyboard, mouse, phase, events, calls>>
    /\ UNCHANGED <<msger, nmsgs, sentlog, delivered, batch, query, pump>>

\* func returns in the drain loop having left cf in control_flow; match control_flow.
FuncReturnDrain ==
    /\ pc = "func"
    /\ phase = "drain"
    /\ \E cf \in ControlFlows :
          /\ control_flow' = cf
          /\ CASE cf.kind = "Continue" -> pc' = "recv" /\ close' = close
               [] cf.kind = "Exit" -> pc' = "returned" /\ close' = TRUE
               [] cf.kind = "ExitWithCode" -> pc' = "panicked" /\ close' = close
    /\ UNCHANGED <<keyboard, mouse, msger, phase, events, nmsgs, sentlog, delivered,
                   batch, calls, query, pump>>

\* Faulty variant: ExitWithCode in the idle tick is handled like Exit.
FuncReturnIdle_CodeAsExit ==
    /\ pc = "func"
    /\ phase = "idle"
    /\ \E cf \in ControlFlows :
          CASE cf.kind = "Continue" ->
                  /\ control_flow' = Continue
                  /\ pc' = "recv"
                  /\ close' = close
                  /\ batch' = <<>>
                  /\ calls' = 0
            [] OTHER ->
                  /\ control_flow' = cf
                  /\ pc' = "returned"
                  /\ close' = TRUE
                  /\ UNCHANGED <<batch, calls>>
    /\ UNCHANGED <<keyboard, mouse, msger, phase, events, nmsgs, sentlog, delivered, query, pump>>

\* func returns from the idle tick; match control_flow; control_flow = Continue.
FuncReturnIdle ==
    /\ pc = "func"
    /\ phase = "idle"
    /\ \E cf \in ControlFlows :
          CASE cf.kind = "Continue" ->
                  /\ control_flow' = Continue
                  /\ pc' = "recv"
                  /\ close' = close
                  /\ batch' = <<>>
                  /\ calls' = 0
            [] cf.kind = "Exit" ->
                  /\ control_flow' = cf
                  /\ pc' = "returned"
                  /\ close' = TRUE
                  /\ UNCHANGED <<batch, calls>>
            [] cf.kind = "ExitWithCode" ->
                  /\ control_flow' = cf
                  /\ pc' = "panicked"
                  /\ close' = close
                  /\ UNCHANGED <<batch, calls>>
    /\ UNCHANGED <<keyboard, mouse, msger, phase, events, nmsgs, sentlog, delivered, query, pump>>

Next ==
    \/ DispatchKey
    \/ RunStart
    \/ RecvOk
    \/ RecvEmpty
    \/ FuncReturnDrain
    \/ FuncReturnIdle

Spec == Init /\ [][Next]_vars

\* The same program driven by pointer moves and the left button, by the other
\* four buttons and a move, by resizes and unhandled messages, and by keys and
\* buttons together.
NextPointer ==
    DispatchPointer \/ RunStart \/ RecvOk \/ RecvEmpty \/ FuncReturnDrain \/ FuncReturnIdle
SpecPointer == Init /\ [][NextPointer]_vars

NextButtons ==
    DispatchButton \/ RunStart \/ RecvOk \/ RecvEmpty \/ FuncReturnDrain \/ FuncReturnIdle
SpecButtons == Init /\ [][NextButtons]_vars

NextWindow ==
    DispatchWindow \/ RunStart \/ RecvOk \/ RecvEmpty \/ FuncReturnDrain \/ FuncReturnIdle
SpecWindow == Init /\ [][NextWindow]_vars

\* Two windows, each with its own message-pump thread, sending key
\* notifications through the one channel.
TwoWindows == {1, 2}
TwoWindowMessages == {OsMsg("WM_KEYDOWN", Key_A, 0), OsMsg("WM_KEYUP", Key_A, 1)}
DispatchTwoWindows == \E hwnd \in TwoWindows, m \in TwoWindowMessages : Dispatch(hwnd, m)
NextTwoWindows ==
    DispatchTwoWindows \/ RunStart \/ RecvOk \/ RecvEmpty \/ FuncReturnDrain
        \/ FuncReturnIdle
SpecTwoWindows == Init /\ [][NextTwoWindows]_vars

\* The keyboard-driven program whose channel can become disconnected.
NextDisconnect ==
    DispatchKey \/ Disconnect \/ RunStart \/ RecvOk \/ RecvEmpty \/ FuncReturnDrain
        \/ FuncReturnIdle
SpecDisconnect == Init /\ [][NextDisconnect]_vars

NextInput ==
    DispatchInput \/ RunStart \/ RecvOk \/ RecvEmpty \/ FuncReturnDrain \/ FuncReturnIdle
SpecInput == Init /\ [][NextInput]_vars

(***************************************************************************)
(* The accessors as pure functions of the tables: a callback queries them  *)
(* on whatever state the tables are in.  InitQuery draws every key state   *)
(* KeyState::new can build (a superset of the states run produces) for     *)
(* the keys, or for the five button slots.                                 *)
(***************************************************************************)
QueryFixed ==
    /\ close = FALSE
    /\ msger = Messenger_new
    /\ control_flow = ControlFlow_default
    /\ pc = "func"
    /\ phase = "idle"
    /\ events = Events_default
    /\ nmsgs = 0
    /\ sentlog = <<>>
    /\ delivered = <<>>
    /\ batch = <<>>
    /\ calls = 1
    /\ query = NoQuery
    /\ pump = Pump_new

InitQuery ==
    /\ \/ /\ keyboard \in {[Keyboard_new(FALSE) EXCEPT !.keys = ks] :
                              ks \in [TableCodes(N_KEYS) -> KeyStates]}
          /\ mouse = Mouse_new
       \/ /\ keyboard = Keyboard_new(FALSE)
          /\ mouse \in {[Mouse_new EXCEPT !.l_button = l, !.r_button = r, !.m_button = m,
                                          !.x1_button = x1, !.x2_button = x2] :
                           l \in KeyStates, r \in KeyStates, m \in KeyStates,
                           x1 \in KeyStates, x2 \in KeyStates}
    /\ QueryFixed

QueryKey ==
    /\ \E k \in KeyCodes :
          query' = [fn |-> "get_key", arg |-> k, result |-> get_key(keyboard, k)]
    /\ UNCHANGED <<keyboard, mouse, close, msger, control_flow, pc, phase, events,
                   nmsgs, sentlog, delivered, batch, calls, pump>>

QueryMouseButton ==
    /\ \E b \in Buttons :
          query' = [fn |-> "get_mouse_button", arg |-> b,
                    result |-> get_mouse_button(mouse, b)]
    /\ UNCHANGED <<keyboard, mouse, close, msger, control_flow, pc, phase, events,
                   nmsgs, sentlog, delivered, batch, calls, pump>>

NextQuery == QueryKey \/ QueryMouseButton

SpecQuery == InitQuery /\ [][NextQuery]_vars

\* The same accessors queried with any id: keycodes and character codes up to
\* the first one past the table, and every button id from 0 to one past the
\* last defined one.
KeyIds == KeyCodes \cup {N_KEYS}
ButtonIds == 0..(Button_XBUTTON2 + 1)

QueryKeyId ==
    /\ \E k \in KeyIds :
          query' = [fn |-> "get_key", arg |-> k, result |-> get_key(keyboard, k)]
    /\ UNCHANGED <<keyboard, mouse, close, msger, control_flow, pc, phase, events,
                   nmsgs, sentlog, delivered, batch, calls, pump>>

QueryCharId ==
    /\ \E c \in KeyIds :
          query' = [fn |-> "get_char", arg |-> c, result |-> get_char(keyboard, c)]
    /\ UNCHANGED <<keyboard, mouse, close, msger, control_flow, pc, phase, events,
                   nmsgs, sentlog, delivered, batch, calls, pump>>

QueryMouseButtonId ==
    /\ \E b \in ButtonIds :
          query' = [fn |-> "get_mouse_button", arg |-> b,
                    result |-> get_mouse_button(mouse, b)]
    /\ UNCHANGED <<keyboard, mouse, close, msger, control_flow, pc, phase, events,
                   nmsgs, sentlog, delivered, batch, calls, pump>>

NextQueryIds == QueryKeyId \/ QueryCharId \/ QueryMouseButtonId

SpecQueryIds == InitQuery /\ [][NextQueryIds]_vars

(***************************************************************************)
(* Claims.                                                                 *)
(***************************************************************************)
\* The four-way classification of the claim: r is the Action for the bits of ks.
FourWay(ks, r) ==
    /\ (ks.is_down /\ ~ks.is_changed) => r = "Down"
    /\ (ks.is_down /\ ks.is_changed) => r = "Press"
    /\ (~ks.is_down /\ ks.is_changed) => r = "Release"
    /\ (~ks.is_down /\ ~ks.is_changed) => r = "None"

\* The slot of the mouse record that belongs to a button id.
SlotOf(ms, b) ==
    CASE b = Button_LBUTTON -> ms.l_button
      [] b = Button_RBUTTON -> ms.r_button
      [] b = Button_MBUTTON -> ms.m_button
      [] b = Button_XBUTTON1 -> ms.x1_button
      [] b = Button_XBUTTON2 -> ms.x2_button

\* C1: get_key(k) and get_mouse_button(b) return Down when down and not changed,
\* Press when down and changed, Release when not down and changed, None when
\* neither; the result is fixed by the down and changed bits of the queried key
\* or slot alone, so the released bit never influences it.
C1_FourWayMapping ==
    /\ query.fn = "get_key" => FourWay(keyboard.keys[query.arg], query.result)
    /\ query.fn = "get_mouse_button" => FourWay(SlotOf(mouse, query.arg), query.result)

\* C1 witness: a query of the second extended button just after its release,
\* with the released bit set, answered Release.
C1_Witness ==
    /\ query.fn = "get_mouse_button"
    /\ query.arg = Button_XBUTTON2
    /\ mouse.x2_button = KeyState_new(FALSE, TRUE, TRUE)
    /\ mouse.l_button = KeyState_new(TRUE, FALSE, FALSE)
    /\ query.result = "Release"

\* The delivered notifications that are key notifications for keycode k.
IsKeyOf(d, k) == d.main_events.kind = "Key" /\ d.main_events.keycode = k
KeyHistory(k) == SelectSeq(delivered, LAMBDA d : IsKeyOf(d, k))

\* The scenario of the claims: key-down without the repeat bit, key-down with
\* it, key-up.  InScenario(h): h is a non-empty prefix of the scenario.
ScenarioStep(e, i) ==
    CASE i = 1 -> ~e.up /\ e.is_changed
      [] i = 2 -> ~e.up /\ ~e.is_changed
      [] i = 3 -> e.up
      [] OTHER -> FALSE
InScenario(h) ==
    /\ Len(h) \in 1..3
    /\ \A i \in 1..Len(h) : ScenarioStep(h[i].main_events, i)
ScenarioAction == <<"Press", "Down", "Release">>

\* For key k, whose key notifications since construction are a prefix of the
\* scenario: in the callback of the last of them get_key(k) is Press, Down,
\* Release in turn, and None in the idle tick that follows the key-up.
C2_For(k) ==
    LET h == KeyHistory(k)
        last == delivered[Len(delivered)]
    IN  (InScenario(h) /\ pc = "func" /\ IsKeyOf(last, k)) =>
            /\ phase = "drain" => get_key(keyboard, k) = ScenarioAction[Len(h)]
            /\ (phase = "idle" /\ Len(h) = 3) => get_key(keyboard, k) = "None"

\* C2: for any keycode k of the table, from the initial state: after a non-repeat
\* key-down get_key(k) = Press, after a following repeat key-down Down, after a
\* key-up Release, and after one further clear with no new notification None.
C2_KeyLifecycle == \A k \in KeyCodes : C2_For(k)

\* The events run hands to the callback for the scenario on key k.
C3_For(k) ==
    LET h == KeyHistory(k)
    IN  InScenario(h) =>
            \A i \in 1..Len(h) :
                h[i].events = KeyboardEvents_Key(h[i].main_events.id, k, ScenarioAction[i])

\* C3: from a fresh keyboard, key-down{k, repeat=false}, key-down{k, repeat=true},
\* key-up{k} reach the callback as Key{k, Press}, Key{k, Down}, Key{k, Release}
\* (the scenario is stated for an ordinary key, 65).
C3_ScenarioEvents == \A k \in OrdKeys : C3_For(k)

Seqs(q) == [i \in 1..Len(q) |-> q[i].seq]

C5_ExitStopsBatch ==
    /\ [][(pc = "func" /\ phase = "drain" /\ control_flow'.kind = "Exit") =>
             (/\ pc' = "returned"
              /\ calls = Len(batch)
              /\ calls' = calls
              /\ delivered' = delivered
              /\ Len(msger') >= Len(msger))]_vars
    /\ [][pc = "returned" =>
             (/\ pc' = "returned"
              /\ calls' = calls
              /\ delivered' = delivered
              /\ events' = events
              /\ Len(msger') >= Len(msger))]_vars

\* C5 witness: run returned from the drain loop after the second event of a
\* batch, with a third event still queued.
C5_Witness ==
    /\ pc = "returned"
    /\ phase = "drain"
    /\ calls = 2
    /\ Len(batch) = 2
    /\ Len(msger) = 1

\* A step of run (the window threads only send: they alone advance nmsgs).
RunStep == nmsgs' = nmsgs

\* C6: run stops only right after a callback invocation that set Exit or
\* ExitWithCode; after an invocation that left Continue run goes on polling.
C6_StopsOnlyOnExit ==
    /\ [][(pc \notin {"returned", "panicked"} /\ pc' \in {"returned", "panicked"}) =>
             (pc = "func" /\ control_flow'.kind \in {"Exit", "ExitWithCode"})]_vars
    /\ [][(pc = "func" /\ RunStep /\ control_flow'.kind = "Continue") => pc' = "recv"]_vars

\* C7: ExitWithCode, in either phase, makes run panic right after the callback,
\* with no further invocation and without setting close (false since
\* construction, it is still false after the panic); Exit makes run set close
\* and return normally.
C7_ExitWithCodePanics ==
    /\ [][(pc = "func" /\ control_flow'.kind = "ExitWithCode") =>
             (pc' = "panicked" /\ UNCHANGED <<close, calls, delivered>>)]_vars
    /\ [][(pc = "func" /\ control_flow'.kind = "Exit") =>
             (pc' = "returned" /\ close')]_vars
    /\ [][pc = "panicked" => UNCHANGED <<pc, close, calls, delivered, events>>]_vars
    /\ [](pc = "returned" => close)
    /\ [](pc = "panicked" => ~close)

\* C7 witness: run panicked on ExitWithCode set in an idle tick, after events
\* had been delivered.
C7_Witness ==
    /\ pc = "panicked"
    /\ control_flow.kind = "ExitWithCode"
    /\ phase = "idle"
    /\ delivered # <<>>
    /\ ~close

\* C8: when run finds the channel empty it calls the callback once, with
\* Events::None, before it tries to receive again.
C8_IdleTick ==
    /\ [][(pc = "recv" /\ msger = <<>> /\ RunStep) =>
             (/\ pc' = "func"
              /\ phase' = "idle"
              /\ events' = Events_None
              /\ calls' = calls + 1
              /\ delivered' = delivered)]_vars
    /\ [][(pc = "func" /\ phase = "idle") =>
             (/\ calls' \in {calls, 0}
              /\ delivered' = delivered
              /\ Len(msger') >= Len(msger))]_vars

\* C8 witness: an idle tick although no notification was ever sent.
C8_Witness ==
    /\ pc = "func"
    /\ phase = "idle"
    /\ events = Events_None
    /\ nmsgs = 0
    /\ calls = 1

\* C9: right after construction (run not yet started) every key is None, no char
\* is set, every button is None and both pointer positions are (0, 0).
C9_FreshState ==
    pc = "new" =>
        /\ \A k \in DOMAIN keyboard.keys :
              get_key(keyboard, k) = "None" /\ get_char(keyboard, k) = FALSE
        /\ \A b \in Buttons : get_mouse_button(mouse, b) = "None"
        /\ <<mouse.x, mouse.y>> = <<0, 0>>
        /\ <<mouse.last_x, mouse.last_y>> = <<0, 0>>

\* C9 witness: the constructed Manager with notifications already queued by its
\* window thread.
C9_Witness ==
    /\ pc = "new"
    /\ Len(msger) = 2

\* C10: whenever the callback is invoked, for an event or an idle tick, the
\* ControlFlow it is handed is Continue.
C10_FreshControlFlow == pc = "func" => control_flow = Continue

\* C10 witness: a callback invocation that follows earlier invocations, in the
\* drain loop and in idle ticks.
C10_Witness ==
    /\ pc = "func"
    /\ Len(delivered) = 2
    /\ phase = "idle"
    /\ control_flow = Continue

\* The key whose entry a notification writes (none for a char notification).
WritesKey(e, k) == e.kind = "Key" /\ e.keycode = k

\* C11: the changed and char flags are cleared once per polling interval, not
\* once per event: a flag set by translating one event of a batch is still set
\* when the callback runs for a later event of the same batch (unless that
\* later event writes the same entry).
C11_ClearOncePerInterval ==
    [][(pc = "recv" /\ batch # <<>> /\ msger # <<>> /\ RunStep /\ pc' = "func") =>
          (/\ \A k \in DOMAIN keyboard.keys :
                  (keyboard.keys[k].is_changed /\ ~WritesKey(Head(msger).event, k)) =>
                      keyboard'.keys[k].is_changed
           /\ \A c \in DOMAIN keyboard.chars :
                  keyboard.chars[c] => keyboard'.chars[c])]_vars

\* The button slot a notification writes.
WritesButton(e, b) ==
    CASE b = Button_LBUTTON -> e.kind = "LButton"
      [] b = Button_RBUTTON -> e.kind = "RButton"
      [] b = Button_MBUTTON -> e.kind = "MButton"
      [] b \in {Button_XBUTTON1, Button_XBUTTON2} -> e.kind = "XButton"

\* C12: both clears run before every callback invocation, so a changed (or
\* char) flag that is set when the callback is invoked was set by translating
\* the notification of that very invocation; it is never carried over from an
\* earlier invocation, and in an idle tick no flag is set.
C12_ClearBetweenCallbacks ==
    [][(RunStep /\ pc = "recv" /\ pc' = "func") =>
          (/\ \A k \in DOMAIN keyboard.keys :
                  keyboard'.keys[k].is_changed =>
                      (msger # <<>> /\ WritesKey(Head(msger).event, k))
           /\ \A c \in DOMAIN keyboard.chars :
                  keyboard'.chars[c] =>
                      (msger # <<>> /\ Head(msger).event.kind = "Char"
                                    /\ Head(msger).event.keycode = c)
           /\ \A b \in Buttons :
                  SlotOf(mouse', b).is_changed =>
                      (msger # <<>> /\ WritesButton(Head(msger).event, b)))]_vars

\* C12 witness: the callback for a left-button press that directly follows the
\* callback for a key press: the button's flag is set, the key's no longer.
C12_Witness ==
    /\ pc = "func"
    /\ phase = "drain"
    /\ Len(delivered) >= 2
    /\ delivered[Len(delivered) - 1].main_events.kind = "Key"
    /\ delivered[Len(delivered)].main_events.kind = "LButton"
    /\ mouse.l_button.is_changed
    /\ \E k \in OrdKeys : keyboard.keys[k].is_down /\ ~keyboard.keys[k].is_changed

\* C13: Keyboard::clear() sets the changed flag of every key and the char flag
\* of every char to false and leaves every down and released flag (and the
\* table itself) as it was; clearing twice is the same as clearing once.  It
\* is the only thing run does to the keyboard before an idle tick.
C13_KeyboardClearFrame ==
    /\ [](LET c == Keyboard_clear(keyboard)
          IN  /\ DOMAIN c.keys = DOMAIN keyboard.keys
              /\ DOMAIN c.chars = DOMAIN keyboard.chars
              /\ \A k \in DOMAIN keyboard.keys :
                    /\ c.keys[k].is_changed = FALSE
                    /\ c.keys[k].is_down = keyboard.keys[k].is_down
                    /\ c.keys[k].is_released = keyboard.keys[k].is_released
              /\ \A ch \in DOMAIN keyboard.chars : c.chars[ch] = FALSE
              /\ c.autorepeat = keyboard.autorepeat
              /\ c.n_keys = keyboard.n_keys
              /\ Keyboard_clear(c) = c)
    /\ [][(pc = "recv" /\ msger = <<>> /\ RunStep) =>
             (/\ \A k \in DOMAIN keyboard.keys :
                    keyboard'.keys[k] = [keyboard.keys[k] EXCEPT !.is_changed = FALSE]
              /\ \A ch \in DOMAIN keyboard.chars : keyboard'.chars[ch] = FALSE)]_vars

\* C13 witness: the idle tick after a key-up and a char notification: the
\* clear has reset the changed and char flags, released is still set.
C13_Witness ==
    /\ pc = "func"
    /\ phase = "idle"
    /\ Len(delivered) >= 2
    /\ delivered[Len(delivered)].main_events.kind = "Char"
    /\ \E k \in OrdKeys :
          /\ delivered[Len(delivered) - 1].main_events = MainKeyboardEvents_Key(1, TRUE, FALSE, k)
          /\ keyboard.keys[k] = KeyState_new(FALSE, TRUE, FALSE)
          /\ ~keyboard.chars[k]

Positions(ms) == <<ms.x, ms.y, ms.last_x, ms.last_y>>

\* C14: Mouse::clear_keystates() resets the changed flag of the five button
\* slots and nothing else: both positions and every down and released flag are
\* kept.  It is all run does to the mouse before an idle tick, and the previous
\* position changes only when a pointer move is translated (update_pos), where
\* it takes the value of the current position.
C14_MouseClearFrame ==
    /\ [](LET c == Mouse_clear_keystates(mouse)
          IN  /\ Positions(c) = Positions(mouse)
              /\ \A b \in Buttons :
                    SlotOf(c, b) = [SlotOf(mouse, b) EXCEPT !.is_changed = FALSE])
    /\ [][(pc = "recv" /\ msger = <<>> /\ RunStep) =>
             (/\ Positions(mouse') = Positions(mouse)
              /\ \A b \in Buttons :
                    SlotOf(mouse', b) = [SlotOf(mouse, b) EXCEPT !.is_changed = FALSE])]_vars
    /\ [][<<mouse'.last_x, mouse'.last_y>> # <<mouse.last_x, mouse.last_y>> =>
             (/\ pc = "recv"
              /\ msger # <<>>
              /\ Head(msger).event.kind = "MouseMove"
              /\ <<mouse'.last_x, mouse'.last_y>> = <<mouse.x, mouse.y>>)]_vars

\* C14 witness: the idle tick after two moves and a second-extended-button
\* release: positions and the released flag are kept, changed is reset.
C14_Witness ==
    /\ pc = "func"
    /\ phase = "idle"
    /\ Len(delivered) = 3
    /\ delivered[3].main_events.kind = "XButton"
    /\ mouse.x2_button = KeyState_new(FALSE, TRUE, FALSE)
    /\ <<mouse.last_x, mouse.last_y>> # <<0, 0>>
    /\ <<mouse.x, mouse.y>> # <<0, 0>>

\* The pointer moves run has received so far, in order.
MovesReceived ==
    SelectSeq(SubSeq(sentlog, 1, Len(sentlog) - Len(msger)),
              LAMBDA e : e.kind = "MouseMove")

\* The offsets as the accessors compute them, in either build.
Offsets(ms) ==
    [oc \in BOOLEAN |-> <<Mouse_x_offset(ms, oc), Mouse_y_offset(ms, oc)>>]
OffsetsAre(ms, dx, dy) ==
    \A oc \in BOOLEAN :
        Offsets(ms)[oc] = <<[ok |-> TRUE, value |-> dx], [ok |-> TRUE, value |-> dy]>>

\* C15: after update_pos(a) followed by update_pos(b) the previous position is
\* a, the current position is b and x_offset()/y_offset() are b - a
\* componentwise; the offsets change only in update_pos, and they become 0 only
\* when update_pos is called with the position that is already current.
C15_UpdatePosOffsets ==
    /\ [](LET mv == MovesReceived
              n == Len(mv)
          IN  n >= 2 =>
                /\ <<mouse.last_x, mouse.last_y>> = <<mv[n - 1].x, mv[n - 1].y>>
                /\ <<mouse.x, mouse.y>> = <<mv[n].x, mv[n].y>>
                /\ OffsetsAre(mouse, mv[n].x - mv[n - 1].x, mv[n].y - mv[n - 1].y))
    /\ [][Offsets(mouse') # Offsets(mouse) =>
             (pc = "recv" /\ msger # <<>> /\ Head(msger).event.kind = "MouseMove")]_vars
    /\ [][(~OffsetsAre(mouse, 0, 0) /\ OffsetsAre(mouse', 0, 0)) =>
             (/\ pc = "recv"
              /\ msger # <<>>
              /\ Head(msger).event.kind = "MouseMove"
              /\ <<Head(msger).event.x, Head(msger).event.y>> = <<mouse.x, mouse.y>>)]_vars

MovesDelivered == SelectSeq(delivered, LAMBDA d : d.main_events.kind = "MouseMove")

\* C16: every pointer-move notification (x, y) run receives reaches the
\* callback as a MouseMove event whose x, y are the notification's, whose
\* last_x, last_y are those of the previous move ((0, 0) for the first) and
\* whose dx, dy are x - last_x and y - last_y.
C16_MouseMoveEvent ==
    LET mv == MovesReceived
        dm == MovesDelivered
    IN  /\ Len(dm) = Len(mv)
        /\ \A i \in 1..Len(dm) :
              LET last_x == IF i = 1 THEN 0 ELSE mv[i - 1].x
                  last_y == IF i = 1 THEN 0 ELSE mv[i - 1].y
              IN  /\ dm[i].main_events = mv[i]
                  /\ dm[i].events =
                        MouseEvents_MouseMove(mv[i].id, mv[i].x, mv[i].y, last_x, last_y,
                                              mv[i].x - last_x, mv[i].y - last_y)

\* The window event a resize must reach the callback as.
ResizeEvent(id, os) ==
    [kind |-> (CASE os.wparam = SIZE_MAXIMIZED -> "Maximized"
                 [] os.wparam = SIZE_MINIMIZED -> "Minimized"
                 [] OTHER -> "FramebufferChanged"),
     id |-> id,
     width |-> LOWORD(os.lparam),
     height |-> HIWORD(os.lparam)]

\* C17: a resize notification is classified by its kind tag: Maximized for the
\* maximize tag, Minimized for the minimize tag, FramebufferChanged for every
\* other tag; wndproc sends exactly one notification for it, and it reaches the
\* callback as that one window event with the resize's width and height.
C17_ResizeThreeWay ==
    /\ \A hwnd \in Windows, m \in SizeMessages :
          wndproc(hwnd, m) = <<ResizeEvent(hwnd, m)>>
    /\ \A i \in 1..Len(msger) :
          msger[i].os.msg = "WM_SIZE" =>
              msger[i].event = ResizeEvent(msger[i].event.id, msger[i].os)
    /\ \A i \in 1..Len(delivered) :
          delivered[i].os.msg = "WM_SIZE" =>
              /\ delivered[i].main_events = ResizeEvent(delivered[i].main_events.id, delivered[i].os)
              /\ delivered[i].events = ResizeEvent(delivered[i].main_events.id, delivered[i].os)

\* C17 witness: a maximize to 800 x 600, a resize of kind 3 to 640 x 480 and a
\* minimize have reached the callback as Maximized, FramebufferChanged and
\* Minimized.
C17_Witness ==
    /\ pc = "func"
    /\ Len(delivered) = 3
    /\ delivered[1].events = WindowEvents_Maximized(1, 800, 600)
    /\ delivered[2].os.wparam = 3
    /\ delivered[2].events = WindowEvents_FramebufferChanged(1, 640, 480)
    /\ delivered[3].events.kind = "Minimized"

\* C18: an OS message wndproc has no arm for still yields a notification that
\* takes its place in the order and reaches the callback as Events::None: every
\* message wndproc has handled, recognized or not, has put one notification in
\* the channel.
C18_UnrecognizedYieldsNone ==
    /\ Len(sentlog) = nmsgs
    /\ \A i \in 1..Len(delivered) :
          delivered[i].os \in UnrecognizedMessages => delivered[i].events = Events_None

\* The button event a button message must reach the callback as.
ButtonEvent(kind, id, os) ==
    [kind |-> kind, id |-> id,
     action |-> (IF os.msg \in {"WM_LBUTTONDOWN", "WM_RBUTTONDOWN", "WM_MBUTTONDOWN",
                                "WM_XBUTTONDOWN"}
                 THEN "Press" ELSE "Release"),
     pos |-> Point_new(LOWORD(os.lparam), HIWORD(os.lparam))]

\* C19: a right-button notification reaches the callback as MouseEvents::RButton
\* and a middle-button notification as MouseEvents::MButton, Press on down and
\* Release on up, with the notification's position; only left-button
\* notifications produce MouseEvents::LButton.
C19_ButtonVariants ==
    \A i \in 1..Len(delivered) :
        LET d == delivered[i]
        IN  /\ d.os.msg \in {"WM_RBUTTONDOWN", "WM_RBUTTONUP"} =>
                  d.events = ButtonEvent("RButton", d.main_events.id, d.os)
            /\ d.os.msg \in {"WM_MBUTTONDOWN", "WM_MBUTTONUP"} =>
                  d.events = ButtonEvent("MButton", d.main_events.id, d.os)
            /\ d.events.kind = "LButton" => d.os.msg \in {"WM_LBUTTONDOWN", "WM_LBUTTONUP"}

\* The extended button an extended-button message is about: the high word of
\* its wparam.
Fired(os) == HIWORD(os.wparam)

\* C20: for every extended-button down or up notification the event variant
\* (X1Button or X2Button) and the slot updated are those of the button that
\* fired, also when the other extended button is held at that moment.
C20_ExtendedButtonRouting ==
    /\ \A i \in 1..Len(delivered) :
          LET d == delivered[i]
          IN  d.os.msg \in {"WM_XBUTTONDOWN", "WM_XBUTTONUP"} =>
                 d.events = ButtonEvent(IF Fired(d.os) = XBUTTON1 THEN "X1Button" ELSE "X2Button",
                                        d.main_events.id, d.os)
    /\ (pc = "func" /\ phase = "drain"
          /\ delivered[Len(delivered)].os.msg \in {"WM_XBUTTONDOWN", "WM_XBUTTONUP"}) =>
          LET os == delivered[Len(delivered)].os
              slot == IF Fired(os) = XBUTTON1 THEN mouse.x1_button ELSE mouse.x2_button
              other == IF Fired(os) = XBUTTON1 THEN mouse.x2_button ELSE mouse.x1_button
          IN  /\ slot.is_changed
              /\ slot.is_down = (os.msg = "WM_XBUTTONDOWN")
              /\ ~other.is_changed

\* C21: a query with an undefined id panics instead of answering a default:
\* get_mouse_button(b) for every b that is not one of the five button ids, and
\* get_key(k) and get_char(k) for every k outside the table (k >= 256).
C21_UndefinedIdPanics ==
    /\ (query.fn = "get_mouse_button" /\ query.arg \notin Buttons) =>
          query.result = Panicked
    /\ (query.fn \in {"get_key", "get_char"} /\ query.arg >= N_KEYS) =>
          query.result = Panicked

\* C21 witness: get_mouse_button(3), an id between the right and the middle
\* button, asked while buttons are held, has panicked.
C21_Witness ==
    /\ query.fn = "get_mouse_button"
    /\ query.arg = Button_RBUTTON + 1
    /\ query.result = Panicked
    /\ mouse.r_button.is_down
    /\ mouse.m_button.is_down

\* C22: translating a key-down, key-up or char notification never misses the
\* table: every code a notification carries is inside it, so the step of run
\* that receives and translates a notification never panics.
C22_NoLookupMiss ==
    /\ [](\A i \in 1..Len(sentlog) :
            sentlog[i].kind \in {"Key", "Char"} => InTable(keyboard, sentlog[i].keycode))
    /\ [][(pc = "recv" /\ RunStep) => pc' # "panicked"]_vars

\* C23: when try_recv fails because the channel is disconnected, run treats it
\* as an unrecoverable error: it stops there instead of going on to the idle
\* tick and polling again as it does when the channel is only empty.
C23_DisconnectIsFatal ==
    [][(pc = "recv" /\ msger # <<>> /\ Head(msger) = Disconnected) =>
          (/\ pc' \in {"panicked", "returned"}
           /\ calls' = calls)]_vars

DeliveredSeqs == {delivered[i].seq : i \in 1..Len(delivered)}
QueuedSeqs == {msger[i].seq : i \in 1..Len(msger)}

\* C24: with two windows, each sending from its own thread, the callback sees
\* one total order: every notification it gets is one that was sent, none is
\* delivered twice, none is lost (what is not yet delivered is still queued),
\* and two notifications of the same window are delivered in the order that
\* window's thread sent them.
C24_SingleTotalOrder ==
    /\ \A i \in 1..Len(delivered) :
          /\ delivered[i].seq \in 1..Len(sentlog)
          /\ delivered[i].main_events = sentlog[delivered[i].seq]
    /\ \A i, j \in 1..Len(delivered) :
          i < j =>
             /\ delivered[i].seq # delivered[j].seq
             /\ delivered[i].main_events.id = delivered[j].main_events.id =>
                   delivered[i].seq < delivered[j].seq
    /\ pc # "panicked" =>
          /\ DeliveredSeqs \cup QueuedSeqs = 1..Len(sentlog)
          /\ DeliveredSeqs \cap QueuedSeqs = {}
          /\ Cardinality(QueuedSeqs) = Len(msger)

\* C24 witness: the callback has been handed a notification of window 1, one of
\* window 2 and another of window 1, in that order, sent while run was polling.
C24_Witness ==
    /\ pc = "func"
    /\ Len(delivered) = 3
    /\ delivered[1].main_events.id = 1
    /\ delivered[2].main_events.id = 2
    /\ delivered[3].main_events.id = 1
    /\ delivered[1].main_events.up # delivered[3].main_events.up

\* C25 as claimed: the keyboard and pointer state is written only by the
\* window (producer) threads, before the notification is enqueued; the thread
\* of run and the callback never writes it.
C25_ProducerSideMutation ==
    [][<<keyboard, mouse>>' # <<keyboard, mouse>> => ~RunStep]_vars

\* C25 amended: the keyboard and pointer state is written only by run, on the
\* thread that also runs the callback: the clear and the mutation belonging to
\* a notification happen after it is dequeued and before the callback is
\* invoked for it.  The window threads only send and never touch the state,
\* and nothing writes it while the callback is running, so no state cell is
\* written by one thread while another reads or writes it.
C25_ConsumerSideMutation ==
    /\ [][~RunStep => UNCHANGED <<keyboard, mouse>>]_vars
    /\ [][<<keyboard, mouse>>' # <<keyboard, mouse>> =>
             (RunStep /\ pc = "recv" /\ pc' \in {"func", "panicked"})]_vars
    /\ [][pc = "func" => UNCHANGED <<keyboard, mouse>>]_vars

\* C25 witness: the callback runs for a key press run has translated, while a
\* window thread has already queued the key-up and a button press that the
\* tables do not show yet.
C25_Witness ==
    /\ pc = "func"
    /\ phase = "drain"
    /\ Len(msger) = 2
    /\ msger[1].event.kind = "Key"
    /\ msger[1].event.up
    /\ keyboard.keys[msger[1].event.keycode] = KeyState_new(TRUE, FALSE, TRUE)
    /\ msger[2].event.kind = "LButton"
    /\ ~mouse.l_button.is_down

\* ---------------------------------------------------------------------------
\* Wstring and Astring (common.rs): a vector of code units with a terminator.
\* ---------------------------------------------------------------------------

\* Bounds of the string scenarios: characters per &str argument and operations
\* per run.
MaxStrLen == 2
MaxStrOps == 3

\* The characters &str arguments are built from: 'A' (one UTF-16 unit, one
\* UTF-8 byte), U+00E9 (one unit, two bytes) and U+1F600 (two units, four
\* bytes).
Char_A == 65
Char_E_ACUTE == 233
Char_GRINNING == 128512
Char_REPLACEMENT == 65533
Chars == {Char_A, Char_E_ACUTE, Char_GRINNING}

RECURSIVE StrsUpTo(_)
StrsUpTo(n) ==
    IF n = 0 THEN {<<>>}
    ELSE LET shorter == StrsUpTo(n - 1)
         IN shorter \cup {Append(s, c) : s \in {t \in shorter : Len(t) = n - 1}, c \in Chars}

Strs == StrsUpTo(MaxStrLen)

\* str::encode_utf16 of one character and of a string.
encode_utf16_char(c) ==
    IF c < 65536 THEN <<c>>
    ELSE <<55296 + ((c - 65536) \div 1024), 56320 + ((c - 65536) % 1024)>>

RECURSIVE encode_utf16(_)
encode_utf16(s) ==
    IF s = <<>> THEN <<>> ELSE encode_utf16_char(Head(s)) \o encode_utf16(Tail(s))

\* String::from_utf16_lossy: a surrogate pair is one character, a lone
\* surrogate becomes U+FFFD, every other unit (the terminator 0 included) is
\* the character of that value.
RECURSIVE from_utf16_lossy(_)
from_utf16_lossy(v) ==
    IF v = <<>> THEN <<>>
    ELSE IF /\ v[1] \in 55296..56319
            /\ Len(v) >= 2
            /\ v[2] \in 56320..57343
         THEN <<65536 + (v[1] - 55296) * 1024 + (v[2] - 56320)>>
                 \o from_utf16_lossy(Tail(Tail(v)))
    ELSE IF v[1] \in 55296..57343
         THEN <<Char_REPLACEMENT>> \o from_utf16_lossy(Tail(v))
    ELSE <<v[1]>> \o from_utf16_lossy(Tail(v))

\* str::bytes: the UTF-8 encoding of one character and of a string.
bytes_char(c) ==
    IF c < 128 THEN <<c>>
    ELSE IF c < 2048 THEN <<192 + (c \div 64), 128 + (c % 64)>>
    ELSE IF c < 65536
         THEN <<224 + (c \div 4096), 128 + ((c \div 64) % 64), 128 + (c % 64)>>
    ELSE <<240 + (c \div 262144), 128 + ((c \div 4096) % 64),
           128 + ((c \div 64) % 64), 128 + (c % 64)>>

RECURSIVE bytes(_)
bytes(s) == IF s = <<>> THEN <<>> ELSE bytes_char(Head(s)) \o bytes(Tail(s))

\* `as i8` of a u8 and `as u8` of an i8.
AsI8(b) == IF b >= 128 THEN b - 256 ELSE b
AsU8(b) == IF b < 0 THEN b + 256 ELSE b

IsCont(v, i) == Len(v) >= i /\ v[i] \in 128..191

\* String::from_utf8_lossy: a lead byte with its continuation bytes is one
\* character, a byte that starts no well-formed sequence becomes U+FFFD.
RECURSIVE from_utf8_lossy(_)
from_utf8_lossy(v) ==
    IF v = <<>> THEN <<>>
    ELSE IF v[1] < 128 THEN <<v[1]>> \o from_utf8_lossy(Tail(v))
    ELSE IF v[1] \in 194..223 /\ IsCont(v, 2)
         THEN <<(v[1] - 192) * 64 + (v[2] - 128)>> \o from_utf8_lossy(SubSeq(v, 3, Len(v)))
    ELSE IF v[1] \in 224..239 /\ IsCont(v, 2) /\ IsCont(v, 3)
         THEN <<(v[1] - 224) * 4096 + (v[2] - 128) * 64 + (v[3] - 128)>>
                 \o from_utf8_lossy(SubSeq(v, 4, Len(v)))
    ELSE IF v[1] \in 240..244 /\ IsCont(v, 2) /\ IsCont(v, 3) /\ IsCont(v, 4)
         THEN <<(v[1] - 240) * 262144 + (v[2] - 128) * 4096 + (v[3] - 128) * 64
                  + (v[4] - 128)>>
                 \o from_utf8_lossy(SubSeq(v, 5, Len(v)))
    ELSE <<Char_REPLACEMENT>> \o from_utf8_lossy(Tail(v))

\* a - b on usize: the difference when it is not negative; otherwise a panic in
\* a build with overflow checks and, in a build without, the difference wrapped
\* around: `borrow` says that the value stands for 2^64 + value.
Usize_sub(a, b, overflow_checks) ==
    IF a >= b THEN [ok |-> TRUE, borrow |-> FALSE, value |-> a - b]
    ELSE IF overflow_checks THEN [ok |-> FALSE, borrow |-> FALSE, value |-> 0]
    ELSE [ok |-> TRUE, borrow |-> TRUE, value |-> a - b]

MapSeq(v, Op(_)) == [i \in 1..Len(v) |-> Op(v[i])]

Wstring_new == [data |-> <<>>]
Wstring_len(w, overflow_checks) == Usize_sub(Len(w.data), 1, overflow_checks)
Wstring_from(data) == [data |-> Append(encode_utf16(data), 0)]
Wstring_set(w, data) == [w EXCEPT !.data = Append(encode_utf16(data), 0)]
Wstring_push(w, data) ==
    LET wstring == from_utf16_lossy(w.data) \o data
    IN [w EXCEPT !.data = Append(encode_utf16(wstring), 0)]

Astring_new == [data |-> <<>>]
Astring_len(a, overflow_checks) == Usize_sub(Len(a.data), 1, overflow_checks)
Astring_from(data) == [data |-> Append(MapSeq(bytes(data), AsI8), 0)]
Astring_set(a, data) == [a EXCEPT !.data = Append(MapSeq(bytes(data), AsI8), 0)]
Astring_push(a, data) ==
    LET astring == from_utf8_lossy(MapSeq(a.data, AsU8)) \o data
    IN [a EXCEPT !.data = Append(MapSeq(bytes(astring), AsI8), 0)]

\* The string scenarios keep, in `query`, a Wstring and an Astring that receive
\* the same operations, the logical content those operations build (from and
\* set replace it, push appends to it), and the last len() results.
NoLen == [ok |-> FALSE, borrow |-> FALSE, value |-> 0]

StringState(fn, arg, w, a, content, ops) ==
    [fn |-> fn, arg |-> arg, wstring |-> w, astring |-> a, content |-> content,
     ops |-> ops, wlen |-> NoLen, alen |-> NoLen]

StringsUnchanged ==
    UNCHANGED <<keyboard, mouse, close, msger, control_flow, pc, phase, events,
                nmsgs, sentlog, delivered, batch, calls, pump>>

InitStrings ==
    /\ keyboard = Keyboard_new(FALSE)
    /\ mouse = Mouse_new
    /\ close = FALSE
    /\ msger = Messenger_new
    /\ control_flow = ControlFlow_default
    /\ pc = "func"
    /\ phase = "idle"
    /\ events = Events_default
    /\ nmsgs = 0
    /\ sentlog = <<>>
    /\ delivered = <<>>
    /\ batch = <<>>
    /\ calls = 1
    /\ query = StringState("new", <<>>, Wstring_new, Astring_new, <<>>, 0)
    /\ pump = Pump_new

StringNew ==
    /\ query.ops < MaxStrOps
    /\ query' = StringState("new", <<>>, Wstring_new, Astring_new, <<>>, query.ops + 1)
    /\ StringsUnchanged

StringFrom ==
    /\ query.ops < MaxStrOps
    /\ \E s \in Strs :
          query' = StringState("from", s, Wstring_from(s), Astring_from(s), s,
                               query.ops + 1)
    /\ StringsUnchanged

StringSet ==
    /\ query.ops < MaxStrOps
    /\ \E s \in Strs :
          query' = StringState("set", s, Wstring_set(query.wstring, s),
                               Astring_set(query.astring, s), s, query.ops + 1)
    /\ StringsUnchanged

StringPush ==
    /\ query.ops < MaxStrOps
    /\ \E s \in Strs :
          query' = StringState("push", s, Wstring_push(query.wstring, s),
                               Astring_push(query.astring, s), query.content \o s,
                               query.ops + 1)
    /\ StringsUnchanged

StringLen ==
    /\ query.fn # "len"
    /\ \E overflow_checks \in BOOLEAN :
          query' = [query EXCEPT !.fn = "len",
                                 !.wlen = Wstring_len(query.wstring, overflow_checks),
                                 !.alen = Astring_len(query.astring, overflow_checks)]
    /\ StringsUnchanged

NextStrings == StringNew \/ StringFrom \/ StringSet \/ StringPush \/ StringLen

SpecStrings == InitStrings /\ [][NextStrings]_vars

IsLen(r, n) == r.ok /\ ~r.borrow /\ r.value = n

\* C26: after any sequence of new, from, set and push on a Wstring and on an
\* Astring, len() is the number of code units of the logical content (UTF-16
\* units for the Wstring, bytes for the Astring), the terminator excluded; so
\* new().len() is 0 and every push(s) adds exactly the length of s.
C26_LenIsContentLength ==
    query.fn = "len" =>
       /\ IsLen(query.wlen, Len(encode_utf16(query.content)))
       /\ IsLen(query.alen, Len(bytes(query.content)))

\* run is about to translate a raw key-down / key-up for keycode k.
RecvKeyDown(k) ==
    /\ pc = "recv"
    /\ Messenger_try_recv_ok(msger)
    /\ Messenger_try_recv_value(msger).event.kind = "Key"
    /\ ~Messenger_try_recv_value(msger).event.up
    /\ Messenger_try_recv_value(msger).event.keycode = k

RecvKeyUp(k) ==
    /\ pc = "recv"
    /\ Messenger_try_recv_ok(msger)
    /\ Messenger_try_recv_value(msger).event.kind = "Key"
    /\ Messenger_try_recv_value(msger).event.up
    /\ Messenger_try_recv_value(msger).event.keycode = k

C27_For(k) ==
    (RecvKeyDown(k) /\ RunStep) =>
       LET e == Messenger_try_recv_value(msger).event
           c == Keyboard_clear(keyboard)
           st == [c.keys[k] EXCEPT !.is_down = TRUE, !.is_changed = e.is_changed]
       IN  /\ pc' = "func"
           /\ keyboard'.keys[k].is_down
           /\ keyboard'.keys[k].is_changed = e.is_changed
           /\ mouse' = Mouse_clear_keystates(mouse)
           /\ IF ~e.is_changed
              THEN /\ events' = KeyboardEvents_Key(e.id, k, "Down")
                   /\ keyboard' = [c EXCEPT !.keys[k] = st]
              ELSE IF keyboard.keys[k].is_released
              THEN /\ events' = KeyboardEvents_Key(e.id, k, "Press")
                   /\ keyboard' = [c EXCEPT !.keys[k] = [st EXCEPT !.is_released = FALSE]]
              ELSE /\ events' = Events_None
                   /\ keyboard' = [c EXCEPT !.keys[k] = st]

\* C27: translating a raw key-down for any keycode k sets down[k] and sets
\* changed[k] to "repeat bit clear"; a repeat produces Key{k, Down}; a
\* non-repeat with released[k] set clears released[k] and produces
\* Key{k, Press}; a non-repeat with released[k] clear hands Events::None to the
\* callback and changes nothing beyond down and changed.
C27_KeyDownTranslation == [][\A k \in KeyCodes : C27_For(k)]_vars

C28_For(k) ==
    (RecvKeyUp(k) /\ RunStep) =>
       LET e == Messenger_try_recv_value(msger).event
       IN  /\ pc' = "func"
           /\ ~keyboard'.keys[k].is_down
           /\ keyboard'.keys[k].is_changed
           /\ keyboard'.keys[k].is_released
           /\ events' = KeyboardEvents_Key(e.id, k, "Release")

\* C28: translating a raw key-up for any keycode k sets down[k] = false,
\* changed[k] = true and released[k] = true and produces Key{k, Release},
\* whatever the state of the key was.
C28_KeyUpTranslation == [][\A k \in KeyCodes : C28_For(k)]_vars

\* A key-up for k was translated and no Key{k, Press} was produced since.
KeyUpPending(k) ==
    \E i \in 1..Len(delivered) :
       /\ delivered[i].main_events.kind = "Key"
       /\ delivered[i].main_events.up
       /\ delivered[i].main_events.keycode = k
       /\ \A j \in (i + 1)..Len(delivered) :
             ~(/\ delivered[j].events.kind = "Key"
               /\ delivered[j].events.keycode = k
               /\ delivered[j].events.action = "Press")

C29_LatchSteps(k) ==
    /\ (~keyboard.keys[k].is_released /\ keyboard'.keys[k].is_released) => RecvKeyUp(k)
    /\ (keyboard.keys[k].is_released /\ ~keyboard'.keys[k].is_released) =>
          (/\ pc' = "func"
           /\ events'.kind = "Key"
           /\ events'.keycode = k
           /\ events'.action = "Press")

\* C29: in every reachable state and for every keycode k, released[k] is true
\* exactly when a key-up for k was translated and no Key{k, Press} was produced
\* since; the latch is set only by a key-up and cleared only in the step that
\* produces the Press event, never by clear().
C29_ReleasedLatch ==
    /\ [](\A k \in KeyCodes : keyboard.keys[k].is_released <=> KeyUpPending(k))
    /\ [][\A k \in KeyCodes : C29_LatchSteps(k)]_vars

C30_For(k) ==
    (pc = "recv" /\ RunStep) =>
       (keyboard'.keys[k].is_changed <=>
           \/ keyboard'.keys[k].is_down # keyboard.keys[k].is_down
           \/ RecvKeyUp(k))

\* C30: for every keycode k, after run has cleared and translated,
\* changed[k] is true exactly when the down bit of k flipped (in either
\* direction) or a key-up of k was translated since that clear; a key-down
\* arriving while k is already down does not leave changed[k] true.
C30_ChangedMeansFlipped ==
    /\ [][\A k \in KeyCodes : C30_For(k)]_vars
    /\ [][\A k \in KeyCodes : ~RunStep => UNCHANGED keyboard.keys[k].is_changed]_vars

\* The pointer button a raw button message is about, and whether it is a
\* button-down.
ButtonOf(os) ==
    CASE os.msg \in {"WM_LBUTTONDOWN", "WM_LBUTTONUP"} -> Button_LBUTTON
      [] os.msg \in {"WM_RBUTTONDOWN", "WM_RBUTTONUP"} -> Button_RBUTTON
      [] os.msg \in {"WM_MBUTTONDOWN", "WM_MBUTTONUP"} -> Button_MBUTTON
      [] os.msg \in {"WM_XBUTTONDOWN", "WM_XBUTTONUP"} ->
            (IF Fired(os) = XBUTTON1 THEN Button_XBUTTON1 ELSE Button_XBUTTON2)
      [] OTHER -> 0

IsButtonDown(os) ==
    os.msg \in {"WM_LBUTTONDOWN", "WM_RBUTTONDOWN", "WM_MBUTTONDOWN", "WM_XBUTTONDOWN"}

\* The delivered notifications that are button messages of button b.
ButtonHistory(b) == {i \in 1..Len(delivered) : ButtonOf(delivered[i].os) = b}

Last(S) == CHOOSE i \in S : \A j \in S : j <= i

C31_For(b) ==
    (pc = "func" /\ ButtonHistory(b) # {}) =>
       LET i == Last(ButtonHistory(b))
           fresh == phase = "drain" /\ i = Len(delivered)
           slot == SlotOf(mouse, b)
       IN  IF IsButtonDown(delivered[i].os)
           THEN /\ slot.is_down /\ ~slot.is_released /\ slot.is_changed = fresh
                /\ get_mouse_button(mouse, b) = (IF fresh THEN "Press" ELSE "Down")
           ELSE /\ ~slot.is_down /\ slot.is_released /\ slot.is_changed = fresh
                /\ get_mouse_button(mouse, b) = (IF fresh THEN "Release" ELSE "None")

\* C31: for each of the five pointer buttons b, a raw button-down sets
\* down = true, released = false, changed = true, so get_mouse_button(b) is
\* Press in the callback of that notification and Down in every later callback
\* until a button-up for b; a raw button-up sets down = false, released = true,
\* changed = true, so it is Release in that callback and None in later ones
\* until the next button-down for b.
C31_ButtonLifecycle == \A b \in Buttons : C31_For(b)

\* C32: each raw notification run receives results in exactly one callback
\* invocation carrying one event value (Events::None included): every receive
\* is followed by one invocation for that notification, and the number of
\* notifications handed to the callback is the number received.
C32_OneCallbackPerNotification ==
    /\ [](Len(delivered) = Len(sentlog) - Len(msger))
    /\ [][(pc = "recv" /\ Messenger_try_recv_ok(msger) /\ RunStep) =>
             (/\ pc' = "func"
              /\ phase' = "drain"
              /\ calls' = calls + 1
              /\ msger' = Messenger_try_recv_rest(msger)
              /\ Len(delivered') = Len(delivered) + 1
              /\ delivered'[Len(delivered')].main_events =
                    Messenger_try_recv_value(msger).event
              /\ delivered'[Len(delivered')].events = events')]_vars
    /\ [][(pc = "func" /\ phase = "drain" /\ RunStep) =>
             (calls' = calls /\ delivered' = delivered)]_vars

\* The callback now running is the one of a char notification for code c.
CallbackOfChar(c) ==
    /\ phase = "drain"
    /\ delivered # <<>>
    /\ delivered[Len(delivered)].main_events.kind = "Char"
    /\ delivered[Len(delivered)].main_events.keycode = c

\* C33: get_char(c) is true during the callback of a char notification for c
\* and false in every other callback invocation (later notifications, idle
\* ticks), whatever the down, changed and released bits of any key are.
C33_CharFlagOneCallback ==
    pc = "func" =>
       \A c \in DOMAIN keyboard.chars : get_char(keyboard, c) = CallbackOfChar(c)

\* C33 witness: the callback of a key-down that follows a char notification
\* for the same code: the key is down and changed, the char flag is gone.
C33_Witness ==
    /\ pc = "func"
    /\ phase = "drain"
    /\ Len(delivered) = 2
    /\ \E c \in OrdKeys :
          /\ delivered[1].main_events = MainKeyboardEvents_Char(1, c)
          /\ delivered[2].main_events = MainKeyboardEvents_Key(1, FALSE, TRUE, c)
          /\ keyboard.keys[c].is_down
          /\ keyboard.keys[c].is_changed
          /\ get_char(keyboard, c) = FALSE

(***************************************************************************)
(* The message-pump thread of a window (Manager::insert) and WM_DESTROY.   *)
(***************************************************************************)
DestroyMessage == OsMsgL("WM_DESTROY", 0, 0, 0)

\* wndproc handles WM_DESTROY: it sends Close and posts the quit message to
\* its own thread.
Destroy(hwnd) ==
    /\ pc # "panicked"
    /\ ~Messenger_is_disconnected(msger)
    /\ nmsgs < MaxMsgs
    /\ pump[hwnd].state = "pumping"
    /\ ~pump[hwnd].destroyed
    /\ nmsgs' = nmsgs + 1
    /\ msger' = SendAll(msger, sentlog, wndproc(hwnd, DestroyMessage), DestroyMessage)
    /\ sentlog' = sentlog \o wndproc(hwnd, DestroyMessage)
    /\ pump' = [pump EXCEPT ![hwnd].quit = TRUE, ![hwnd].destroyed = TRUE]
    /\ UNCHANGED <<keyboard, mouse, close, control_flow, pc, phase, events,
                   delivered, batch, calls, query>>

\* The pump loop takes the posted quit message out of the thread's queue:
\* TranslateMessage and DispatchMessageW do nothing with it and the loop,
\* which has no exit, goes round again.
PumpLoopQuit(hwnd) ==
    /\ pump[hwnd].state = "pumping"
    /\ pump[hwnd].quit
    /\ pump' = [pump EXCEPT ![hwnd].quit = FALSE]
    /\ UNCHANGED <<keyboard, mouse, close, msger, control_flow, pc, phase, events,
                   nmsgs, sentlog, delivered, batch, calls, query>>

DispatchDestroy == \E hwnd \in Windows : Destroy(hwnd)
PumpQuit == \E hwnd \in Windows : PumpLoopQuit(hwnd)

NextPump ==
    \/ DispatchDestroy
    \/ PumpQuit
    \/ DispatchWindow
    \/ RunStart
    \/ RecvOk
    \/ RecvEmpty
    \/ FuncReturnDrain
    \/ FuncReturnIdle

\* The pump thread is scheduled: a pending quit message is eventually taken.
SpecPump == Init /\ [][NextPump]_vars /\ WF_vars(PumpQuit)

\* C34: after a window's destroy notification has been handled (Close sent,
\* quit message posted), the message-pump thread of that window eventually
\* leaves its loop and terminates.
C34_PumpThreadTerminates ==
    \A hwnd \in Windows : pump[hwnd].destroyed ~> (pump[hwnd].state = "terminated")

\* run on a consumer thread that keeps being scheduled, with a callback that
\* always returns.
RunFairness ==
    /\ WF_vars(RunStart)
    /\ WF_vars(RecvOk)
    /\ WF_vars(RecvEmpty)
    /\ WF_vars(FuncReturnDrain)
    /\ WF_vars(FuncReturnIdle)

SpecLive == Init /\ [][Next]_vars /\ RunFairness

\* C35: if the callback always leaves ControlFlow as Continue and the consumer
\* thread keeps taking steps, every notification a producer has sent into the
\* channel is eventually passed to the callback.
C35_EverySentIsDelivered ==
    [](control_flow.kind = "Continue") =>
       \A i \in 1..MaxMsgs : [](Len(sentlog) >= i => <>(Len(delivered) >= i))

\* C36: in every idle-tick callback invocation get_key(k) is Down or None for
\* every keycode k, get_mouse_button(b) is Down or None for every button b and
\* get_char(c) is false for every c; Press and Release are observable only in
\* the callback of the notification that caused them.
C36_IdleTickShowsNoEdge ==
    /\ (pc = "func" /\ phase = "idle") =>
          /\ \A k \in DOMAIN keyboard.keys : get_key(keyboard, k) \in {"Down", "None"}
          /\ \A b \in Buttons : get_mouse_button(mouse, b) \in {"Down", "None"}
          /\ \A c \in DOMAIN keyboard.chars : get_char(keyboard, c) = FALSE
    /\ (pc = "func" /\ phase = "drain") =>
          /\ \A k \in DOMAIN keyboard.keys :
                get_key(keyboard, k) \in {"Press", "Release"} =>
                   WritesKey(delivered[Len(delivered)].main_events, k)
          /\ \A b \in Buttons :
                get_mouse_button(mouse, b) \in {"Press", "Release"} =>
                   WritesButton(delivered[Len(delivered)].main_events, b)

\* C36 witness: the idle tick after a key press and a left-button release:
\* the key reads Down, the button reads None.
C36_Witness ==
    /\ pc = "func"
    /\ phase = "idle"
    /\ Len(delivered) = 3
    /\ delivered[3].main_events.kind = "LButton"
    /\ delivered[3].main_events.up
    /\ \E k \in OrdKeys :
          /\ delivered[2].main_events = MainKeyboardEvents_Key(1, FALSE, TRUE, k)
          /\ get_key(keyboard, k) = "Down"
    /\ mouse.l_button.is_released
    /\ get_mouse_button(mouse, Button_LBUTTON) = "None"

ProducedKey(i, k, action) ==
    /\ delivered[i].events.kind = "Key"
    /\ delivered[i].events.keycode = k
    /\ delivered[i].events.action = action

C39_For(k) ==
    (RecvKeyDown(k) /\ RunStep) =>
       LET e == Messenger_try_recv_value(msger).event
       IN  /\ ~e.is_changed =>
                /\ pc' = "func"
                /\ events' = KeyboardEvents_Key(e.id, k, "Down")
                /\ keyboard'.keys[k].is_released = keyboard.keys[k].is_released
           /\ (e.is_changed /\ keyboard.keys[k].is_released) =>
                /\ pc' = "func"
                /\ events' = KeyboardEvents_Key(e.id, k, "Press")
                /\ ~keyboard'.keys[k].is_released

\* C39: a key-down with the repeat bit set for key k produces Key{k, Down} and
\* leaves released[k] as it was, so a latch set by an earlier key-up stays set
\* through any number of repeats and the next non-repeat key-down for k still
\* produces Key{k, Press} and clears it.
C39_RepeatKeepsLatch == [][\A k \in KeyCodes : C39_For(k)]_vars

\* C40: for consecutive pointer positions within the 16-bit signed range,
\* x_offset()/y_offset() and the dx/dy of the MouseMove event are the
\* mathematical differences x - last_x and y - last_y: the 16-bit subtraction
\* neither overflows, wraps around nor panics, in any build.
C40_OffsetsAreDifferences ==
    /\ [](/\ mouse.x \in I16_MIN..I16_MAX
          /\ mouse.last_x \in I16_MIN..I16_MAX
          /\ mouse.y \in I16_MIN..I16_MAX
          /\ mouse.last_y \in I16_MIN..I16_MAX
          /\ \A overflow_checks \in BOOLEAN :
                /\ Mouse_x_offset(mouse, overflow_checks) =
                      [ok |-> TRUE, value |-> mouse.x - mouse.last_x]
                /\ Mouse_y_offset(mouse, overflow_checks) =
                      [ok |-> TRUE, value |-> mouse.y - mouse.last_y])
    /\ [][(/\ pc = "recv"
           /\ Messenger_try_recv_ok(msger)
           /\ Messenger_try_recv_value(msger).event.kind = "MouseMove"
           /\ RunStep) =>
             (/\ pc' = "func"
              /\ events'.kind = "MouseMove"
              /\ events'.dx = events'.x - events'.last_x
              /\ events'.dy = events'.y - events'.last_y)]_vars

====
